---- MODULE Spec2Model ----
(***************************************************************************)
(* Model of the webhook chat client (jeya-ram-k/n8n-webhook-chat).         *)
(*                                                                         *)
(* The transport layer, services/webhookService.ts, is modelled as the     *)
(* state machine of one sendToWebhook call: request assembly, the POST,    *)
(* and the classification of the response.  Every await of the function    *)
(* is one position of pc; the environment (the remote server, the body     *)
(* stream, the FileReader) settles each await.                             *)
(*                                                                         *)
(* JavaScript strings are sequences of characters (one-character TLA+      *)
(* strings; a character outside ASCII is written "U+XXXX"), so that        *)
(* startsWith, trim, JSON.parse, btoa and template literals are computed   *)
(* as the code computes them.  Bodies are sequences of bytes.              *)
(***************************************************************************)
EXTENDS Integers, Sequences, FiniteSets, TLC

\* ------------------------------------------------------------------------
\* String literals of the source
\* ------------------------------------------------------------------------
S_text == <<"t","e","x","t">>
S_chatId == <<"c","h","a","t","I","d">>
S_file == <<"f","i","l","e">>
S_Authorization == <<"A","u","t","h","o","r","i","z","a","t","i","o","n">>
S_Basic == <<"B","a","s","i","c"," ">>
S_Bearer == <<"B","e","a","r","e","r"," ">>
S_RequestFailed == <<"R","e","q","u","e","s","t"," ","f","a","i","l","e","d",":"," ">>
S_ServerResponse ==
    <<"."," ","S","e","r","v","e","r"," ","r","e","s","p","o","n","s","e",":"," ">>
S_applicationJson == <<"a","p","p","l","i","c","a","t","i","o","n","/","j","s","o","n">>
S_textSlash == <<"t","e","x","t","/">>
S_responses == <<"r","e","s","p","o","n","s","e","s">>
S_type == <<"t","y","p","e">>
S_content == <<"c","o","n","t","e","n","t">>
S_InvalidJson ==
    <<"I","n","v","a","l","i","d"," ","J","S","O","N"," ","s","t","r","u","c","t","u","r","e",
      " ","f","r","o","m"," ","w","e","b","h","o","o","k","."," ","E","x","p","e","c","t","e",
      "d"," ","{"," ","r","e","s","p","o","n","s","e","s",":"," ","[",".",".",".","]"," ","}",
      ","," ","a","n"," ","a","r","r","a","y"," ","o","f"," ","r","e","s","p","o","n","s","e",
      "s",","," ","o","r"," ","{"," ","t","e","x","t",":"," ","'",".",".",".","'"," ","}",".">>
S_NetworkError ==
    <<"N","e","t","w","o","r","k"," ","e","r","r","o","r"," ","o","r"," ","C","O","R","S"," ",
      "i","s","s","u","e","."," ","C","h","e","c","k"," ","t","h","e"," ","w","e","b","h","o",
      "o","k"," ","U","R","L"," ","a","n","d"," ","s","e","r","v","e","r"," ","c","o","n","f",
      "i","g","u","r","a","t","i","o","n",".">>
S_null == <<"n","u","l","l">>
S_true == <<"t","r","u","e">>
S_false == <<"f","a","l","s","e">>
S_imageSlash == <<"i","m","a","g","e","/">>
S_videoSlash == <<"v","i","d","e","o","/">>
S_audioSlash == <<"a","u","d","i","o","/">>
S_image == <<"i","m","a","g","e">>
S_video == <<"v","i","d","e","o">>
S_audio == <<"a","u","d","i","o">>
S_attachment == <<"a","t","t","a","c","h","m","e","n","t">>
S_filename == <<"f","i","l","e","n","a","m","e">>
S_filePrefix == <<"f","i","l","e","-">>
S_bin == <<"b","i","n">>
S_constructor == <<"c","o","n","s","t","r","u","c","t","o","r">>
S_proto == <<"_","_","p","r","o","t","o","_","_">>
S_functionObject ==
    <<"f","u","n","c","t","i","o","n"," ","O","b","j","e","c","t","(",")"," ","{"," ","[","n",
      "a","t","i","v","e"," ","c","o","d","e","]"," ","}">>
S_objectObject == <<"[","o","b","j","e","c","t"," ","O","b","j","e","c","t","]">>
S_fileName == <<"f","i","l","e","N","a","m","e">>
S_mimeType == <<"m","i","m","e","T","y","p","e">>
S_dataColon == <<"d","a","t","a",":">>
S_base64Comma == <<";","b","a","s","e","6","4",",">>

\* ------------------------------------------------------------------------
\* JavaScript strings
\* ------------------------------------------------------------------------

\* The printable ASCII characters, code 32 (space) to 126 (~).
Ascii ==
    <<" ","!","\"","#","$","%","&","'","(",")","*","+",",","-",".","/",
      "0","1","2","3","4","5","6","7","8","9",":",";","<","=",">","?",
      "@","A","B","C","D","E","F","G","H","I","J","K","L","M","N","O",
      "P","Q","R","S","T","U","V","W","X","Y","Z","[","\\","]","^","_",
      "U+0060","a","b","c","d","e","f","g","h","i","j","k","l","m","n","o",
      "p","q","r","s","t","u","v","w","x","y","z","{","|","}","~">>

\* The code unit of a character (String.prototype.charCodeAt).
Ord(c) ==
    IF \E i \in 1..Len(Ascii) : Ascii[i] = c
    THEN 31 + (CHOOSE i \in 1..Len(Ascii) : Ascii[i] = c)
    ELSE CASE c = "\t" -> 9
           [] c = "\n" -> 10
           [] c = "\r" -> 13
           [] c = "U+00E9" -> 233
           [] c = "U+20AC" -> 8364
           [] OTHER -> 65533

\* String.fromCharCode for one byte.
Chr(b) ==
    IF b \in 32..126 THEN Ascii[b - 31]
    ELSE CASE b = 9 -> "\t"
           [] b = 10 -> "\n"
           [] b = 13 -> "\r"
           [] b = 233 -> "U+00E9"
           [] OTHER -> "U+FFFD"

StartsWith(s, p) == Len(s) >= Len(p) /\ SubSeq(s, 1, Len(p)) = p

StartsWithAt(s, i, p) == Len(s) >= i - 1 + Len(p) /\ SubSeq(s, i, i - 1 + Len(p)) = p

Includes(s, p) == \E i \in 1..(Len(s) - Len(p) + 1) : StartsWithAt(s, i, p)

IsWhiteSpace(c) == c \in {" ", "\t", "\n", "\r"}

\* String.prototype.trim
Trim(s) ==
    IF \A i \in 1..Len(s) : IsWhiteSpace(s[i]) THEN <<>>
    ELSE LET first == CHOOSE i \in 1..Len(s) :
                         /\ ~IsWhiteSpace(s[i])
                         /\ \A j \in 1..(i - 1) : IsWhiteSpace(s[j])
             last == CHOOSE i \in 1..Len(s) :
                         /\ ~IsWhiteSpace(s[i])
                         /\ \A j \in (i + 1)..Len(s) : IsWhiteSpace(s[j])
         IN SubSeq(s, first, last)

Digits == <<"0","1","2","3","4","5","6","7","8","9">>

IsDigit(c) == \E d \in 1..10 : Digits[d] = c

DigitValue(c) == (CHOOSE d \in 1..10 : Digits[d] = c) - 1

\* The decimal text of a non-negative integer, as a template literal prints it.
RECURSIVE NumToStr(_)
NumToStr(n) == IF n < 10 THEN <<Digits[n + 1]>>
               ELSE NumToStr(n \div 10) \o <<Digits[(n % 10) + 1]>>

\* TextDecoder: the text of a body (bytes outside the modelled range decode to U+FFFD).
RECURSIVE DecodeText(_)
DecodeText(bytes) == IF bytes = <<>> THEN <<>>
                     ELSE <<Chr(Head(bytes))>> \o DecodeText(Tail(bytes))

\* The bytes of an ASCII text.
RECURSIVE EncodeText(_)
EncodeText(s) == IF s = <<>> THEN <<>>
                 ELSE <<Ord(Head(s))>> \o EncodeText(Tail(s))

\* ------------------------------------------------------------------------
\* JavaScript values
\* ------------------------------------------------------------------------

Undefined == [t |-> "undefined", v |-> 0]
JNull == [t |-> "null", v |-> 0]
JBool(b) == [t |-> "boolean", v |-> b]
JNum(n) == [t |-> "number", v |-> n]
JStr(s) == [t |-> "string", v |-> s]
JArr(a) == [t |-> "array", v |-> a]
\* An object is the sequence of its own properties, in insertion order.
JObj(m) == [t |-> "object", v |-> m]

Prop(k, x) == [k |-> k, v |-> x]

HasProp(o, k) == o.t = "object" /\ \E i \in 1..Len(o.v) : o.v[i].k = k

\* Property access o.k on a value that is neither null nor undefined.
Get(o, k) ==
    IF HasProp(o, k) THEN o.v[CHOOSE i \in 1..Len(o.v) : o.v[i].k = k].v
    ELSE Undefined

\* Property assignment on an object under construction.
SetProp(m, k, x) ==
    IF \E i \in 1..Len(m) : m[i].k = k
    THEN [i \in 1..Len(m) |-> IF m[i].k = k THEN Prop(k, x) ELSE m[i]]
    ELSE Append(m, Prop(k, x))

\* ToBoolean
Truthy(x) ==
    CASE x.t = "undefined" -> FALSE
      [] x.t = "null" -> FALSE
      [] x.t = "boolean" -> x.v
      [] x.t = "number" -> x.v # 0
      [] x.t = "string" -> x.v # <<>>
      [] OTHER -> TRUE

IsArray(x) == x.t = "array"

TypeofString(x) == x.t = "string"

\* ------------------------------------------------------------------------
\* JSON.parse (integers only; escapes \" \\ \/ \n \t)
\* ------------------------------------------------------------------------

ParseFail(i) == [ok |-> FALSE, val |-> Undefined, next |-> i]
ParseOk(x, i) == [ok |-> TRUE, val |-> x, next |-> i]

RECURSIVE SkipWs(_, _)
SkipWs(s, i) == IF i <= Len(s) /\ IsWhiteSpace(s[i]) THEN SkipWs(s, i + 1) ELSE i

\* The characters of a string literal from position i, after the opening quote.
RECURSIVE ParseChars(_, _, _)
ParseChars(s, i, acc) ==
    IF i > Len(s) THEN ParseFail(i)
    ELSE IF s[i] = "\"" THEN ParseOk(JStr(acc), i + 1)
    ELSE IF s[i] = "\\" THEN
        IF i + 1 > Len(s) THEN ParseFail(i)
        ELSE IF s[i + 1] \in {"\"", "\\", "/"} THEN ParseChars(s, i + 2, Append(acc, s[i + 1]))
        ELSE IF s[i + 1] = "n" THEN ParseChars(s, i + 2, Append(acc, "\n"))
        ELSE IF s[i + 1] = "t" THEN ParseChars(s, i + 2, Append(acc, "\t"))
        ELSE ParseFail(i)
    ELSE IF s[i] \in {"\t", "\n", "\r"} THEN ParseFail(i)
    ELSE ParseChars(s, i + 1, Append(acc, s[i]))

ParseString(s, i) ==
    IF i <= Len(s) /\ s[i] = "\"" THEN ParseChars(s, i + 1, <<>>) ELSE ParseFail(i)

RECURSIVE ParseDigits(_, _, _)
ParseDigits(s, i, acc) ==
    IF i <= Len(s) /\ IsDigit(s[i]) THEN ParseDigits(s, i + 1, 10 * acc + DigitValue(s[i]))
    ELSE [val |-> acc, next |-> i]

ParseNumber(s, i) ==
    LET neg == i <= Len(s) /\ s[i] = "-"
        j == IF neg THEN i + 1 ELSE i
    IN IF ~(j <= Len(s) /\ IsDigit(s[j])) THEN ParseFail(i)
       ELSE LET d == IF s[j] = "0" THEN [val |-> 0, next |-> j + 1]
                     ELSE ParseDigits(s, j, 0)
            IN ParseOk(JNum(IF neg THEN 0 - d.val ELSE d.val), d.next)

RECURSIVE ParseValue(_, _)
RECURSIVE ParseElements(_, _, _)
RECURSIVE ParseMembers(_, _, _)

\* The elements of an array from position i, after "[" or ",".
ParseElements(s, i, acc) ==
    LET e == ParseValue(s, i)
        j == SkipWs(s, e.next)
    IN IF ~e.ok \/ j > Len(s) THEN ParseFail(i)
       ELSE IF s[j] = "," THEN ParseElements(s, j + 1, Append(acc, e.val))
       ELSE IF s[j] = "]" THEN ParseOk(JArr(Append(acc, e.val)), j + 1)
       ELSE ParseFail(j)

\* The members of an object from position i, after "{" or ",".
ParseMembers(s, i, acc) ==
    LET k == ParseString(s, SkipWs(s, i))
        c == SkipWs(s, k.next)
    IN IF ~k.ok \/ c > Len(s) \/ s[c] # ":" THEN ParseFail(i)
       ELSE LET e == ParseValue(s, c + 1)
                j == SkipWs(s, e.next)
            IN IF ~e.ok \/ j > Len(s) THEN ParseFail(i)
               ELSE IF s[j] = "," THEN ParseMembers(s, j + 1, SetProp(acc, k.val.v, e.val))
               ELSE IF s[j] = "}" THEN ParseOk(JObj(SetProp(acc, k.val.v, e.val)), j + 1)
               ELSE ParseFail(j)

ParseValue(s, i0) ==
    LET i == SkipWs(s, i0) IN
    IF i > Len(s) THEN ParseFail(i)
    ELSE IF s[i] = "{" THEN
        IF SkipWs(s, i + 1) <= Len(s) /\ s[SkipWs(s, i + 1)] = "}"
        THEN ParseOk(JObj(<<>>), SkipWs(s, i + 1) + 1)
        ELSE ParseMembers(s, i + 1, <<>>)
    ELSE IF s[i] = "[" THEN
        IF SkipWs(s, i + 1) <= Len(s) /\ s[SkipWs(s, i + 1)] = "]"
        THEN ParseOk(JArr(<<>>), SkipWs(s, i + 1) + 1)
        ELSE ParseElements(s, i + 1, <<>>)
    ELSE IF s[i] = "\"" THEN ParseString(s, i)
    ELSE IF StartsWithAt(s, i, S_null) THEN ParseOk(JNull, i + 4)
    ELSE IF StartsWithAt(s, i, S_true) THEN ParseOk(JBool(TRUE), i + 4)
    ELSE IF StartsWithAt(s, i, S_false) THEN ParseOk(JBool(FALSE), i + 5)
    ELSE ParseNumber(s, i)

\* JSON.parse: ok = FALSE stands for the SyntaxError it throws.
JSONParse(s) ==
    LET r == ParseValue(s, 1)
    IN IF r.ok /\ SkipWs(s, r.next) = Len(s) + 1 THEN [ok |-> TRUE, val |-> r.val]
       ELSE [ok |-> FALSE, val |-> Undefined]


\* ------------------------------------------------------------------------
\* Completions, errors, optional strings
\* ------------------------------------------------------------------------

\* A thrown or rejected value: an Error object with its class name and message.
\* A rejection with a value that is no Error (a ProgressEvent) has isError FALSE.
Err(name, message) ==
    [t |-> "error", v |-> [name |-> name, message |-> message, isError |-> TRUE]]
NonError(name) ==
    [t |-> "error", v |-> [name |-> name, message |-> <<>>, isError |-> FALSE]]

Return(x) == [kind |-> "return", value |-> x]
Throw(e) == [kind |-> "throw", value |-> e]

\* An optional string field (username?: string), or a header that may be absent.
NoStr == [some |-> FALSE, v |-> <<>>]
Some(s) == [some |-> TRUE, v |-> s]

\* x || '' on an optional string.
OrEmpty(o) == IF o.some /\ o.v # <<>> THEN o.v ELSE <<>>

\* The truthiness of an optional string: present and not empty.
TruthyStr(o) == o.some /\ o.v # <<>>

\* ------------------------------------------------------------------------
\* Base64 (btoa, FileReader.readAsDataURL)
\* ------------------------------------------------------------------------

Base64Alphabet ==
    <<"A","B","C","D","E","F","G","H","I","J","K","L","M","N","O","P",
      "Q","R","S","T","U","V","W","X","Y","Z","a","b","c","d","e","f",
      "g","h","i","j","k","l","m","n","o","p","q","r","s","t","u","v",
      "w","x","y","z","0","1","2","3","4","5","6","7","8","9","+","/">>

B64(n) == Base64Alphabet[n + 1]

RECURSIVE Base64Encode(_)
Base64Encode(b) ==
    IF Len(b) = 0 THEN <<>>
    ELSE IF Len(b) = 1 THEN
        <<B64(b[1] \div 4), B64((b[1] % 4) * 16), "=", "=">>
    ELSE IF Len(b) = 2 THEN
        <<B64(b[1] \div 4), B64((b[1] % 4) * 16 + (b[2] \div 16)),
          B64((b[2] % 16) * 4), "=">>
    ELSE <<B64(b[1] \div 4), B64((b[1] % 4) * 16 + (b[2] \div 16)),
           B64((b[2] % 16) * 4 + (b[3] \div 64)), B64(b[3] % 64)>>
         \o Base64Encode(SubSeq(b, 4, Len(b)))

\* btoa throws InvalidCharacterError on a character outside Latin-1.
BtoaThrows(s) == \E i \in 1..Len(s) : Ord(s[i]) > 255

Btoa(s) == Base64Encode(EncodeText(s))

\* ------------------------------------------------------------------------
\* sendToWebhook: request assembly
\* ------------------------------------------------------------------------

StringField(name, value) == [name |-> name, kind |-> "string", value |-> value, file |-> <<>>]
FileField(name, file) == [name |-> name, kind |-> "file", value |-> <<>>, file |-> <<file>>]

BuildFormData_OneBased(text, chatId, files) ==
    <<StringField(S_text, text), StringField(S_chatId, chatId)>>
    \o [i \in 1..Len(files) |-> FileField(S_file \o NumToStr(i), files[i])]


\* formData.append('text', text); formData.append('chatId', chatId);
\* files.forEach((file, index) => formData.append(`file${index}`, file))
BuildFormData(text, chatId, files) ==
    <<StringField(S_text, text), StringField(S_chatId, chatId)>>
    \o [i \in 1..Len(files) |-> FileField(S_file \o NumToStr(i - 1), files[i])]

Header(name, value) == [name |-> name, value |-> value]

BuildHeaders_EitherHeaderField(authConfig) ==
    CASE authConfig.type = "basic" ->
           IF TruthyStr(authConfig.username) \/ TruthyStr(authConfig.password)
           THEN LET credentials == OrEmpty(authConfig.username) \o <<":">>
                                   \o OrEmpty(authConfig.password)
                IN IF BtoaThrows(credentials)
                   THEN Throw(Err("InvalidCharacterError", <<>>))
                   ELSE Return(<<Header(S_Authorization, S_Basic \o Btoa(credentials))>>)
           ELSE Return(<<>>)
      [] authConfig.type = "header" ->
           IF TruthyStr(authConfig.headerName) \/ TruthyStr(authConfig.headerValue)
           THEN Return(<<Header(authConfig.headerName.v, authConfig.headerValue.v)>>)
           ELSE Return(<<>>)
      [] authConfig.type = "jwt" ->
           IF TruthyStr(authConfig.token)
           THEN Return(<<Header(S_Authorization, S_Bearer \o authConfig.token.v)>>)
           ELSE Return(<<>>)
      [] OTHER -> Return(<<>>)


\* The switch on authConfig.type: the headers object, or the exception btoa throws.
BuildHeaders(authConfig) ==
    CASE authConfig.type = "basic" ->
           IF TruthyStr(authConfig.username) \/ TruthyStr(authConfig.password)
           THEN LET credentials == OrEmpty(authConfig.username) \o <<":">>
                                   \o OrEmpty(authConfig.password)
                IN IF BtoaThrows(credentials)
                   THEN Throw(Err("InvalidCharacterError", <<>>))
                   ELSE Return(<<Header(S_Authorization, S_Basic \o Btoa(credentials))>>)
           ELSE Return(<<>>)
      [] authConfig.type = "header" ->
           IF TruthyStr(authConfig.headerName) /\ TruthyStr(authConfig.headerValue)
           THEN Return(<<Header(authConfig.headerName.v, authConfig.headerValue.v)>>)
           ELSE Return(<<>>)
      [] authConfig.type = "jwt" ->
           IF TruthyStr(authConfig.token)
           THEN Return(<<Header(S_Authorization, S_Bearer \o authConfig.token.v)>>)
           ELSE Return(<<>>)
      [] OTHER -> Return(<<>>)

\* fetch validates the headers before anything is sent: a name that is no HTTP
\* token, or a value with a character outside Latin-1 or a line break, makes it
\* reject with a TypeError.
IsTokenChar(c) ==
    /\ Ord(c) \in 33..126
    /\ c \notin {"\"", "(", ")", ",", "/", ":", ";", "<", "=", ">", "?", "@",
                 "[", "\\", "]", "{", "}"}

ValidHeader(h) ==
    /\ h.name # <<>>
    /\ \A i \in 1..Len(h.name) : IsTokenChar(h.name[i])
    /\ \A i \in 1..Len(h.value) : Ord(h.value[i]) <= 255 /\ h.value[i] \notin {"\n", "\r"}

FetchRejectsHeaders(hs) == \E i \in 1..Len(hs) : ~ValidHeader(hs[i])

\* ------------------------------------------------------------------------
\* sendToWebhook: the JSON / text branch
\* ------------------------------------------------------------------------

\* { type: 'text', content: ... }
TextResponse(content) == JObj(<<Prop(S_type, JStr(S_text)), Prop(S_content, JStr(content))>>)

\* TryParse with the bare-array check left out.
TryParse_NoBareArray(responseText) ==
    LET parsed == JSONParse(responseText)
        responseData == parsed.val
    IN IF ~parsed.ok THEN Throw(Err("SyntaxError", <<>>))
       ELSE IF responseData.t = "null" THEN Throw(Err("TypeError", <<>>))
       ELSE IF Truthy(Get(responseData, S_responses)) /\ IsArray(Get(responseData, S_responses))
            THEN Return(Get(responseData, S_responses))
       ELSE IF Truthy(Get(responseData, S_text)) /\ TypeofString(Get(responseData, S_text))
            THEN Return(JArr(<<TextResponse(Get(responseData, S_text).v)>>))
       ELSE Throw(Err("Error", S_InvalidJson))

\* TryParse with the text check moved in front of the two array checks.
TryParse_TextFirst(responseText) ==
    LET parsed == JSONParse(responseText)
        responseData == parsed.val
    IN IF ~parsed.ok THEN Throw(Err("SyntaxError", <<>>))
       ELSE IF responseData.t = "null" THEN Throw(Err("TypeError", <<>>))
       ELSE IF Truthy(Get(responseData, S_text)) /\ TypeofString(Get(responseData, S_text))
            THEN Return(JArr(<<TextResponse(Get(responseData, S_text).v)>>))
       ELSE IF Truthy(Get(responseData, S_responses)) /\ IsArray(Get(responseData, S_responses))
            THEN Return(Get(responseData, S_responses))
       ELSE IF IsArray(responseData) THEN Return(responseData)
       ELSE Throw(Err("Error", S_InvalidJson))

\* The body of the inner try block: JSON.parse and the three shape checks.
TryParse(responseText) ==
    LET parsed == JSONParse(responseText)
        responseData == parsed.val
    IN IF ~parsed.ok THEN Throw(Err("SyntaxError", <<>>))
       ELSE IF responseData.t = "null" THEN Throw(Err("TypeError", <<>>))
       ELSE IF Truthy(Get(responseData, S_responses)) /\ IsArray(Get(responseData, S_responses))
            THEN Return(Get(responseData, S_responses))
       ELSE IF IsArray(responseData) THEN Return(responseData)
       ELSE IF Truthy(Get(responseData, S_text)) /\ TypeofString(Get(responseData, S_text))
            THEN Return(JArr(<<TextResponse(Get(responseData, S_text).v)>>))
       ELSE Throw(Err("Error", S_InvalidJson))

\* InnerCatch that throws the exception on instead of answering with the text.
InnerCatch_Rethrow(e, responseText) == Throw(e)

\* catch (e) of the inner try: whatever was thrown, the raw text is the reply.
InnerCatch(e, responseText) == Return(JArr(<<TextResponse(responseText)>>))

\* From the text of a 2xx JSON or text response to the completion of the call.
ClassifyText_NoBlankCheck(responseText) ==
    LET c == TryParse(responseText)
    IN IF c.kind = "throw" THEN InnerCatch(c.value, responseText) ELSE c

ClassifyText(responseText) ==
    IF Trim(responseText) = <<>> THEN Return(JArr(<<>>))
    ELSE LET c == TryParse(responseText)
         IN IF c.kind = "throw" THEN InnerCatch(c.value, responseText) ELSE c

\* `Request failed: ${status} ${statusText}. Server response: ${errorText}`
RequestFailedMessage(status, statusText, errorText) ==
    S_RequestFailed \o NumToStr(status) \o <<" ">> \o statusText
    \o S_ServerResponse \o errorText

\* OuterCatch that throws every error on as it is.
OuterCatch_Rethrow(error) == error

\* catch (error) of the outer try: a TypeError becomes the network error.
OuterCatch(error) ==
    IF error.v.isError /\ error.v.name = "TypeError"
    THEN Err("Error", S_NetworkError)
    ELSE error

\* Response.ok
Ok(status) == status >= 200 /\ status <= 299

\* IsFileResponse that looks for JSON alone.
IsFileResponse_JsonOnly(contentType) == ~StartsWith(contentType, S_applicationJson)

\* !contentType.startsWith('application/json') && !contentType.startsWith('text/')
IsFileResponse(contentType) ==
    ~StartsWith(contentType, S_applicationJson) /\ ~StartsWith(contentType, S_textSlash)

\* ------------------------------------------------------------------------
\* sendToWebhook: the file branch
\* ------------------------------------------------------------------------

\* String.prototype.split with a one-character separator.
RECURSIVE SplitFrom(_, _, _, _)
SplitFrom(s, sep, i, cur) ==
    IF i > Len(s) THEN <<cur>>
    ELSE IF s[i] = sep THEN <<cur>> \o SplitFrom(s, sep, i + 1, <<>>)
    ELSE SplitFrom(s, sep, i + 1, Append(cur, s[i]))

Split(s, sep) == SplitFrom(s, sep, 1, <<>>)

\* String.prototype.toLowerCase on the ASCII letters.
ToLowerCase(s) ==
    [i \in 1..Len(s) |-> IF Ord(s[i]) \in 65..90 THEN Chr(Ord(s[i]) + 32) ELSE s[i]]

\* FileReader.readAsDataURL: "data:[mime/type];base64,[base64 string]".
DataURL(blob) == S_dataColon \o blob.type \o S_base64Comma \o Base64Encode(blob.bytes)

\* blobToBase64 when the reader loads: reader.result.split(',')[1].
blobToBase64(blob) ==
    LET parts == Split(DataURL(blob), ",")
    IN IF Len(parts) >= 2 THEN JStr(parts[2]) ELSE Undefined

getMessageType_ImageOnly(mimeType) ==
    IF StartsWith(mimeType, S_imageSlash) THEN S_image ELSE S_file


getMessageType(mimeType) ==
    IF StartsWith(mimeType, S_imageSlash) THEN S_image
    ELSE IF StartsWith(mimeType, S_videoSlash) THEN S_video
    ELSE IF StartsWith(mimeType, S_audioSlash) THEN S_audio
    ELSE S_file

\* mimeMap: the entries in source order, each a MIME type and its extension.
mimeMap ==
    <<
      [key |->
         <<"a","p","p","l","i","c","a","t","i","o","n","/","p","d","f">>,
       ext |-> <<"p","d","f">>],
      [key |->
         <<"a","p","p","l","i","c","a","t","i","o","n","/","z","i","p">>,
       ext |-> <<"z","i","p">>],
      [key |->
         <<"a","p","p","l","i","c","a","t","i","o","n","/","m","s","w","o","r","d">>,
       ext |-> <<"d","o","c">>],
      [key |->
         <<"a","p","p","l","i","c","a","t","i","o","n","/","v","n","d",".","o","p","e","n",
           "x","m","l","f","o","r","m","a","t","s","-","o","f","f","i","c","e","d","o","c",
           "u","m","e","n","t",".","w","o","r","d","p","r","o","c","e","s","s","i","n","g",
           "m","l",".","d","o","c","u","m","e","n","t">>,
       ext |-> <<"d","o","c","x">>],
      [key |->
         <<"a","p","p","l","i","c","a","t","i","o","n","/","v","n","d",".","m","s","-","e",
           "x","c","e","l">>,
       ext |-> <<"x","l","s">>],
      [key |->
         <<"a","p","p","l","i","c","a","t","i","o","n","/","v","n","d",".","o","p","e","n",
           "x","m","l","f","o","r","m","a","t","s","-","o","f","f","i","c","e","d","o","c",
           "u","m","e","n","t",".","s","p","r","e","a","d","s","h","e","e","t","m","l",".",
           "s","h","e","e","t">>,
       ext |-> <<"x","l","s","x">>],
      [key |->
         <<"a","p","p","l","i","c","a","t","i","o","n","/","v","n","d",".","m","s","-","p",
           "o","w","e","r","p","o","i","n","t">>,
       ext |-> <<"p","p","t">>],
      [key |->
         <<"a","p","p","l","i","c","a","t","i","o","n","/","v","n","d",".","o","p","e","n",
           "x","m","l","f","o","r","m","a","t","s","-","o","f","f","i","c","e","d","o","c",
           "u","m","e","n","t",".","p","r","e","s","e","n","t","a","t","i","o","n","m","l",
           ".","p","r","e","s","e","n","t","a","t","i","o","n">>,
       ext |-> <<"p","p","t","x">>],
      [key |->
         <<"t","e","x","t","/","p","l","a","i","n">>,
       ext |-> <<"t","x","t">>],
      [key |->
         <<"t","e","x","t","/","c","s","v">>,
       ext |-> <<"c","s","v">>],
      [key |->
         <<"t","e","x","t","/","h","t","m","l">>,
       ext |-> <<"h","t","m","l">>],
      [key |->
         <<"i","m","a","g","e","/","j","p","e","g">>,
       ext |-> <<"j","p","g">>],
      [key |->
         <<"i","m","a","g","e","/","p","n","g">>,
       ext |-> <<"p","n","g">>],
      [key |->
         <<"i","m","a","g","e","/","g","i","f">>,
       ext |-> <<"g","i","f">>],
      [key |->
         <<"i","m","a","g","e","/","s","v","g","+","x","m","l">>,
       ext |-> <<"s","v","g">>],
      [key |->
         <<"a","u","d","i","o","/","m","p","e","g">>,
       ext |-> <<"m","p","3">>],
      [key |->
         <<"a","u","d","i","o","/","w","a","v">>,
       ext |-> <<"w","a","v">>],
      [key |->
         <<"a","u","d","i","o","/","w","e","b","m">>,
       ext |-> <<"w","e","b","m">>],
      [key |->
         <<"v","i","d","e","o","/","m","p","4">>,
       ext |-> <<"m","p","4">>],
      [key |->
         <<"v","i","d","e","o","/","w","e","b","m">>,
       ext |-> <<"w","e","b","m">>]
    >>

InMimeMap(k) == \E i \in 1..Len(mimeMap) : mimeMap[i].key = k

\* mimeMap is an object literal, so mimeMap[key] with a key it lacks is looked up
\* in Object.prototype.  Of the inherited properties these two have all-lowercase
\* names, which toLowerCase leaves alone; both values are truthy, and each is given
\* as the template literal of the file name prints it.
ObjectPrototype ==
    << [key |-> S_constructor, ext |-> S_functionObject],
       [key |-> S_proto, ext |-> S_objectObject] >>

InObjectPrototype(k) == \E i \in 1..Len(ObjectPrototype) : ObjectPrototype[i].key = k

getExtensionFromMimeType(m) ==
    IF m = <<>> THEN S_bin
    ELSE LET normalizedMimeType == Split(ToLowerCase(m), ";")[1]
             parts == Split(normalizedMimeType, "/")
         IN IF InMimeMap(normalizedMimeType)
            THEN mimeMap[CHOOSE i \in 1..Len(mimeMap) : mimeMap[i].key = normalizedMimeType].ext
            ELSE IF InObjectPrototype(normalizedMimeType)
            THEN ObjectPrototype[CHOOSE i \in 1..Len(ObjectPrototype) :
                                    ObjectPrototype[i].key = normalizedMimeType].ext
            ELSE IF Len(parts) >= 2 /\ parts[2] # <<>>
            THEN Split(parts[2], "+")[1]
            ELSE S_bin

\* The first position from i whose character is in stop, or Len(s) + 1.
RECURSIVE ScanTo(_, _, _)
ScanTo(s, i, stop) ==
    IF i <= Len(s) /\ s[i] \notin stop THEN ScanTo(s, i + 1, stop) ELSE i

\* Whether /filename[^;=\n]*=/ matches at position p, and where the "=" is.
FilenameEq(s, p) == ScanTo(s, p + Len(S_filename), {";", "=", "\n"})

FilenameAt(s, p) ==
    /\ StartsWithAt(s, p, S_filename)
    /\ FilenameEq(s, p) <= Len(s)
    /\ s[FilenameEq(s, p)] = "="

\* Group 1 of the match from position g, just after the "=":
\* (['"]).*?\2 when the opening quote is closed on the same line, else [^;\n]*.
FilenameGroup(s, g) ==
    LET quoted == g <= Len(s) /\ s[g] \in {"'", "\""}
        closes == {c \in (g + 1)..Len(s) :
                     /\ s[c] = s[g]
                     /\ \A j \in (g + 1)..(c - 1) : s[j] \notin {"\n", "\r"}}
    IN IF quoted /\ closes # {}
       THEN SubSeq(s, g, CHOOSE c \in closes : \A d \in closes : c <= d)
       ELSE SubSeq(s, g, ScanTo(s, g, {";", "\n"}) - 1)

\* filenameRegex.exec(disposition): the leftmost match, and its group 1.
filenameRegex(s) ==
    LET starts == {p \in 1..Len(s) : FilenameAt(s, p)}
    IN IF starts = {} THEN [matched |-> FALSE, group |-> <<>>]
       ELSE LET p == CHOOSE q \in starts : \A r \in starts : q <= r
            IN [matched |-> TRUE, group |-> FilenameGroup(s, FilenameEq(s, p) + 1)]

\* replace(/['"]/g, '')
RECURSIVE StripQuotes(_)
StripQuotes(s) ==
    IF s = <<>> THEN <<>>
    ELSE IF Head(s) \in {"'", "\""} THEN StripQuotes(Tail(s))
    ELSE <<Head(s)>> \o StripQuotes(Tail(s))

HexDigits == <<"0","1","2","3","4","5","6","7","8","9","A","B","C","D","E","F">>

IsHex(c) == \E d \in 1..16 : HexDigits[d] = c \/ ToLowerCase(<<HexDigits[d]>>) = <<c>>

HexValue(c) ==
    (CHOOSE d \in 1..16 : HexDigits[d] = c \/ ToLowerCase(<<HexDigits[d]>>) = <<c>>) - 1

EscapedByte(s, i) == 16 * HexValue(s[i + 1]) + HexValue(s[i + 2])

IsEscape(s, i) == i + 2 <= Len(s) /\ s[i] = "%" /\ IsHex(s[i + 1]) /\ IsHex(s[i + 2])

\* decodeURIComponent: ok = FALSE stands for the URIError it throws on a "%" that
\* starts no escape or on bytes that are no UTF-8.  Of the multi-byte sequences
\* only %C3%A9 is decoded here; any other byte above 127 counts as malformed.
RECURSIVE DecodeFrom(_, _, _)
DecodeFrom(s, i, acc) ==
    IF i > Len(s) THEN [ok |-> TRUE, v |-> acc]
    ELSE IF s[i] # "%" THEN DecodeFrom(s, i + 1, Append(acc, s[i]))
    ELSE IF ~IsEscape(s, i) THEN [ok |-> FALSE, v |-> <<>>]
    ELSE IF EscapedByte(s, i) < 128
         THEN DecodeFrom(s, i + 3, Append(acc, Chr(EscapedByte(s, i))))
    ELSE IF EscapedByte(s, i) = 195 /\ IsEscape(s, i + 3) /\ EscapedByte(s, i + 3) = 169
         THEN DecodeFrom(s, i + 6, Append(acc, "U+00E9"))
    ELSE [ok |-> FALSE, v |-> <<>>]

decodeURIComponent(s) == DecodeFrom(s, 1, <<>>)

\* The file name the Content-Disposition header gives: none (undefined), a name,
\* or the URIError of decodeURIComponent.
DispositionFileName(disposition) ==
    IF disposition.some /\ disposition.v # <<>> /\ Includes(disposition.v, S_attachment)
    THEN LET matches == filenameRegex(disposition.v)
         IN IF matches.matched /\ matches.group # <<>>
            THEN LET d == decodeURIComponent(StripQuotes(matches.group))
                 IN IF d.ok THEN Return(Some(d.v)) ELSE Throw(Err("URIError", <<>>))
            ELSE Return(NoStr)
    ELSE Return(NoStr)

\* String.prototype.replace with a one-character string pattern: the first occurrence.
ReplaceFirst(s, c, r) ==
    IF \E i \in 1..Len(s) : s[i] = c
    THEN LET k == CHOOSE i \in 1..Len(s) : s[i] = c /\ \A j \in 1..(i - 1) : s[j] # c
         IN [i \in 1..Len(s) |-> IF i = k THEN r ELSE s[i]]
    ELSE s

\* replace(/c/g, r)
ReplaceAll(s, c, r) == [i \in 1..Len(s) |-> IF s[i] = c THEN r ELSE s[i]]

\* new Date().toISOString().slice(0, 19).replace('T', '_').replace(/:/g, '-')
formattedDate(iso) ==
    ReplaceAll(ReplaceFirst(SubSeq(iso, 1, IF Len(iso) < 19 THEN Len(iso) ELSE 19), "T", "_"),
               ":", "-")

\* blob.type || contentType
FileMimeType(blob, contentType) == IF blob.type # <<>> THEN blob.type ELSE contentType

\* `file-${formattedDate}.${extension}`
GeneratedFileName(blob, contentType, iso) ==
    S_filePrefix \o formattedDate(iso) \o <<".">>
    \o getExtensionFromMimeType(FileMimeType(blob, contentType))

\* The item returned for a non-empty blob.
FileResponse(blob, contentType, base64Content, fileName) ==
    JObj(<<Prop(S_type, JStr(getMessageType(FileMimeType(blob, contentType)))),
           Prop(S_content, base64Content),
           Prop(S_fileName, JStr(fileName)),
           Prop(S_mimeType, JStr(FileMimeType(blob, contentType)))>>)

\* From the base64 text of a non-empty blob to the completion of the call.
ClassifyFile(blob, contentType, disposition, base64Content, iso) ==
    LET header == DispositionFileName(disposition)
    IN IF header.kind = "throw" THEN header
       ELSE LET fileName == IF TruthyStr(header.value) THEN header.value.v
                            ELSE GeneratedFileName(blob, contentType, iso)
            IN Return(JArr(<<FileResponse(blob, contentType, base64Content, fileName)>>))

\* ------------------------------------------------------------------------
\* Inputs: the calls the application makes and the responses a server gives
\* ------------------------------------------------------------------------

MaxFiles == 2

S_FailedToFetch == <<"F","a","i","l","e","d"," ","t","o"," ","f","e","t","c","h">>
Url1 ==
    <<"h","t","t","p","s",":","/","/","n","8","n",".","e","x","a","m","p","l","e","/","w","e",
      "b","h","o","o","k","/","c","h","a","t">>
ChatId1 == <<"3","f","2","b","-","0","0","0","1">>
Text_hi == <<"h","i">>
Name_aPng == <<"a",".","p","n","g">>
Name_nTxt == <<"n",".","t","x","t">>
Mime_imagePng == <<"i","m","a","g","e","/","p","n","g">>
Mime_textPlain == <<"t","e","x","t","/","p","l","a","i","n">>
Mime_applicationPdf == <<"a","p","p","l","i","c","a","t","i","o","n","/","p","d","f">>
Mime_jsonCharset ==
    <<"a","p","p","l","i","c","a","t","i","o","n","/","j","s","o","n",";"," ","c","h","a","r",
      "s","e","t","=","u","t","f","-","8">>
Mime_upperJson == <<"A","p","p","l","i","c","a","t","i","o","n","/","J","S","O","N">>
Mime_audioMpeg == <<"a","u","d","i","o","/","m","p","e","g">>
Mime_videoMp4 == <<"v","i","d","e","o","/","m","p","4">>
Cred_user == <<"u">>
Cred_pass == <<"p">>
Cred_token == <<"t","o","k">>
Cred_headerName == <<"X","-","A","p","i","-","K","e","y">>
Cred_headerValue == <<"k","1">>
Cred_contentType == <<"C","o","n","t","e","n","t","-","T","y","p","e">>
Cred_badName == <<"X"," ","K","e","y">>
Disp_quoted ==
    <<"a","t","t","a","c","h","m","e","n","t",";"," ","f","i","l","e","n","a","m","e","=","\"",
      "r",".","p","d","f","\"">>
Disp_inline ==
    <<"i","n","l","i","n","e",";"," ","f","i","l","e","n","a","m","e","=","\"","r",".","p","d",
      "f","\"">>
Disp_malformed ==
    <<"a","t","t","a","c","h","m","e","n","t",";"," ","f","i","l","e","n","a","m","e","=","a",
      "%","E","0",".","p","d","f">>
Disp_noName == <<"a","t","t","a","c","h","m","e","n","t">>
Iso1 ==
    <<"2","0","2","6","-","1","1","-","0","3","T","1","9",":","4","1",":","0","7",".","2","5",
      "0","Z">>
StatusText_OK == <<"O","K">>
StatusText_Created == <<"C","r","e","a","t","e","d">>
StatusText_NotFound == <<"N","o","t"," ","F","o","u","n","d">>
StatusText_InternalServerError ==
    <<"I","n","t","e","r","n","a","l"," ","S","e","r","v","e","r"," ","E","r","r","o","r">>
B_blank == <<" "," ","\n">>
B_plain ==
    <<"j","u","s","t"," ","a"," ","s","t","r","i","n","g",","," ","n","o","t"," ","j","s","o",
      "n">>
B_text ==
    <<"{","\"","t","e","x","t","\"",":","\"","h","e","l","l","o"," ","*","*","w","o","r","l",
      "d","*","*","\"","}">>
B_foo == <<"{","\"","f","o","o","\"",":","1","}">>
B_boom == <<"\"","b","o","o","m","\"">>
B_null == <<"n","u","l","l">>
B_number == <<"1">>
B_emptyArray == <<"[","]">>
B_array ==
    <<"[","{","\"","t","y","p","e","\"",":","\"","t","e","x","t","\"",",","\"","c","o","n","t",
      "e","n","t","\"",":","\"","a","\"","}","]">>
B_mixedArray == <<"[","1",","," ","\"","x","\"","]">>
B_responses ==
    <<"{","\"","r","e","s","p","o","n","s","e","s","\"",":","[","{","\"","t","y","p","e","\"",
      ":","\"","t","e","x","t","\"",",","\"","c","o","n","t","e","n","t","\"",":","\"","a","\"",
      "}",",","{","\"","t","y","p","e","\"",":","\"","i","m","a","g","e","\"",",","\"","c","o",
      "n","t","e","n","t","\"",":","\"","Q","U","J","D","\"",",","\"","m","i","m","e","T","y",
      "p","e","\"",":","\"","i","m","a","g","e","/","p","n","g","\"","}","]","}">>
B_emptyResponses == <<"{","\"","r","e","s","p","o","n","s","e","s","\"",":","[","]","}">>
B_emptyText == <<"{","\"","t","e","x","t","\"",":","\"","\"","}">>
B_both ==
    <<"{","\"","t","e","x","t","\"",":","\"","t","\"",",","\"","r","e","s","p","o","n","s","e",
      "s","\"",":","[","{","\"","t","y","p","e","\"",":","\"","t","e","x","t","\"",",","\"","c",
      "o","n","t","e","n","t","\"",":","\"","a","\"","}","]","}">>
B_responsesNotArray ==
    <<"{","\"","r","e","s","p","o","n","s","e","s","\"",":","\"","x","\"",",","\"","t","e","x",
      "t","\"",":","\"","t","\"","}">>
B_textNotString == <<"{","\"","t","e","x","t","\"",":","1","}">>
B_truncated == <<"{","\"","t","e","x","t","\"",":">>
B_padded == <<" ","n","o","t"," ","j","s","o","n"," ","\n">>
B_pdf == <<"%","P","D","F","-","1",".","4","\n","%">>

File(name, type, bytes) == [name |-> name, type |-> type, bytes |-> bytes]

Files == {File(Name_aPng, Mime_imagePng, <<137, 80>>), File(Name_nTxt, Mime_textPlain, <<>>)}

FileLists == UNION {[1..n -> Files] : n \in 0..MaxFiles}

Texts == {<<>>, Text_hi}

Auth(type, username, password, headerName, headerValue, token) ==
    [type |-> type, username |-> username, password |-> password,
     headerName |-> headerName, headerValue |-> headerValue, token |-> token]

AuthConfigs ==
    { Auth("none", NoStr, NoStr, NoStr, NoStr, NoStr),
      Auth("basic", Some(Cred_user), Some(Cred_pass), NoStr, NoStr, NoStr),
      Auth("basic", Some(Cred_user), NoStr, NoStr, NoStr, NoStr),
      Auth("basic", Some(<<>>), Some(Cred_pass), NoStr, NoStr, NoStr),
      Auth("basic", NoStr, NoStr, NoStr, NoStr, NoStr),
      Auth("basic", Some(<<"U+20AC">>), Some(Cred_pass), NoStr, NoStr, NoStr),
      Auth("header", NoStr, NoStr, Some(Cred_headerName), Some(Cred_headerValue), NoStr),
      Auth("header", NoStr, NoStr, Some(Cred_headerName), NoStr, NoStr),
      Auth("header", NoStr, NoStr, Some(<<>>), Some(Cred_headerValue), NoStr),
      Auth("header", NoStr, NoStr, Some(Cred_badName), Some(Cred_headerValue), NoStr),
      Auth("header", NoStr, NoStr, Some(Cred_contentType), Some(Mime_textPlain), NoStr),
      Auth("jwt", NoStr, NoStr, NoStr, NoStr, Some(Cred_token)),
      Auth("jwt", NoStr, NoStr, NoStr, NoStr, NoStr),
      Auth("jwt", NoStr, NoStr, NoStr, NoStr, Some(<<"U+20AC">>)) }

StatusText(status) ==
    CASE status = 200 -> StatusText_OK
      [] status = 201 -> StatusText_Created
      [] status = 404 -> StatusText_NotFound
      [] OTHER -> StatusText_InternalServerError

Resp(status, contentType, contentDisposition, body) ==
    [some |-> TRUE, status |-> status, statusText |-> StatusText(status),
     contentType |-> contentType, contentDisposition |-> contentDisposition,
     body |-> body]

NoResponse ==
    [some |-> FALSE, status |-> 0, statusText |-> <<>>,
     contentType |-> NoStr, contentDisposition |-> NoStr, body |-> <<>>]

TextBodies ==
    { <<>>, B_blank, B_plain, B_text, B_foo, B_boom, B_null, B_number, B_emptyArray,
      B_array, B_mixedArray, B_responses, B_emptyResponses, B_emptyText, B_both,
      B_responsesNotArray, B_textNotString, B_truncated, B_padded }

\* 2xx responses that declare JSON or text.
TextResponses ==
    { Resp(200, Some(S_applicationJson), NoStr, EncodeText(b)) : b \in TextBodies }
    \cup { Resp(200, Some(ct), NoStr, EncodeText(b)) :
             ct \in {Mime_jsonCharset, Mime_textPlain}, b \in {<<>>, B_plain, B_text, B_foo} }
    \cup { Resp(201, Some(S_applicationJson), NoStr, EncodeText(b)) : b \in {B_text, B_foo} }

\* 2xx responses that declare anything else, or nothing.
FileResponses ==
    { Resp(200, ct, cd, EncodeText(b)) :
        ct \in {NoStr, Some(Mime_applicationPdf), Some(Mime_imagePng), Some(Mime_upperJson)},
        cd \in {NoStr, Some(Disp_quoted), Some(Disp_malformed)},
        b \in {<<>>, B_pdf} }
    \cup { Resp(200, Some(ct), NoStr, EncodeText(B_pdf)) : ct \in {Mime_audioMpeg, Mime_videoMp4} }
    \cup { Resp(200, Some(Mime_applicationPdf), Some(cd), EncodeText(B_pdf)) :
             cd \in {Disp_inline, Disp_noName} }
    \cup { Resp(200, NoStr, NoStr, EncodeText(B_text)) }

\* Responses outside 200..299.
ErrorResponses ==
    { Resp(500, ct, NoStr, EncodeText(b)) :
        ct \in {NoStr, Some(S_applicationJson), Some(Mime_applicationPdf)},
        b \in {<<>>, B_boom, B_text} }
    \cup { Resp(st, Some(S_applicationJson), NoStr, EncodeText(B_boom)) : st \in {300, 404} }

Responses == TextResponses \cup FileResponses \cup ErrorResponses

\* What reading a body can reject with: the stream broke off.
BodyReadErrors == {Err("TypeError", S_FailedToFetch)}

Top_application == <<"a","p","p","l","i","c","a","t","i","o","n">>
Top_image == <<"i","m","a","g","e">>
Top_text == <<"t","e","x","t">>
Top_upperImage == <<"I","M","A","G","E">>
Sub_pdf == <<"p","d","f">>
Sub_png == <<"p","n","g">>
Sub_svgXml == <<"s","v","g","+","x","m","l">>
Sub_plain == <<"p","l","a","i","n">>
Sub_xTar == <<"x","-","t","a","r">>
Sub_apiJson == <<"v","n","d",".","a","p","i","+","j","s","o","n">>
Sub_plusXml == <<"+","x","m","l">>
Param_charset == <<";"," ","c","h","a","r","s","e","t","=","u","t","f","-","8">>
Mime_binary == <<"b","i","n","a","r","y">>
Mime_upperConstructor == <<"C","o","n","s","t","r","u","c","t","o","r">>

\* What getExtensionFromMimeType is called with: nothing, type/subtype pairs with
\* and without a parameter, and words that are no MIME type.
MimeTypes ==
    { top \o <<"/">> \o sub \o param :
        top \in {Top_application, Top_image, Top_text, Top_upperImage},
        sub \in {<<>>, Sub_pdf, Sub_png, Sub_svgXml, Sub_plain, Sub_xTar, Sub_apiJson,
                 Sub_plusXml},
        param \in {<<>>, Param_charset} }
    \cup {<<>>, Mime_binary, S_constructor, Mime_upperConstructor, S_proto, Mime_videoMp4}

\* Readings of the clock, as toISOString prints them.
Clock == {Iso1}

\* ------------------------------------------------------------------------
\* sendToWebhook as a state machine
\* ------------------------------------------------------------------------

VARIABLES
    pc,             \* "idle", the pending await, or "done"
    url,            \* the endpoint of the call
    formData,       \* the multipart fields, in order
    headers,        \* the headers object
    posts,          \* the POST requests handed to the network
    response,       \* const response
    errorText,      \* const errorText
    responseText,   \* const responseText
    blob,           \* const blob
    base64Content,  \* const base64Content
    result,         \* the promise sendToWebhook returned
    arguments,      \* text, files, authConfig and chatId of the call
    mimeType,       \* getExtensionFromMimeType: its parameter
    extension,      \* getExtensionFromMimeType: what it returned, once called
    messages,       \* App: const [messages, setMessages]
    webhookUrl,     \* App: const [webhookUrl, setWebhookUrl]
    appAuthConfig,  \* App: const [authConfig, setAuthConfig]
    isLoading,      \* App: const [isLoading, setIsLoading]
    appError,       \* App: const [error, setError]
    isSettingsOpen, \* App: const [isSettingsOpen, setIsSettingsOpen]
    localStorage,   \* the items n8nWebhookUrl and n8nWebhookAuth of the origin's storage
    sent,           \* App: the calls of sendToWebhook it made, each with its promise
    uuids,          \* crypto: how many UUIDs randomUUID has generated
    isRecording,      \* ChatInput: const [isRecording, setIsRecording]
    recordingTime,    \* ChatInput: const [recordingTime, setRecordingTime]
    inputFiles,       \* ChatInput: the recordings onstop appended to files
    mediaRecorderRef, \* ChatInput: mediaRecorderRef.current, 0 for null
    timerIntervalRef, \* ChatInput: timerIntervalRef.current, 0 for null
    isCancelledRef,   \* ChatInput: isCancelledRef.current
    startCalls,       \* ChatInput: calls of startRecording waiting for getUserMedia
    recordings,       \* the stream, recorder and interval each resumed call created
    installed,        \* service worker: the install event has been handled
    cache,            \* service worker: the entries of the cache
    events            \* service worker: the fetch events and how far each has got

\* The variables of one call of getExtensionFromMimeType on its own.
extVars == <<mimeType, extension>>

\* The variables of the App component.
appVars == <<messages, webhookUrl, appAuthConfig, isLoading, appError, isSettingsOpen,
             localStorage, sent, uuids>>

\* The variables of one call of sendToWebhook.
sendVars == <<pc, url, formData, headers, posts, response, errorText, responseText, blob,
              base64Content, result, arguments>>

\* The variables of the audio recording of ChatInput.
recVars == <<isRecording, recordingTime, inputFiles, mediaRecorderRef, timerIntervalRef,
             isCancelledRef, startCalls, recordings>>

\* The variables of the service worker.
workerVars == <<installed, cache, events>>

vars == <<sendVars, extVars, appVars, recVars, workerVars>>

NoBlob == [some |-> FALSE, type |-> <<>>, bytes |-> <<>>]

Pending == [state |-> "pending", value |-> Undefined]
Fulfilled(x) == [state |-> "fulfilled", value |-> x]
Rejected(e) == [state |-> "rejected", value |-> e]

\* The promise an async function settles with for a completion of its body
\* inside the outer try.
Settle(c) == IF c.kind = "return" THEN Fulfilled(c.value) ELSE Rejected(OuterCatch(c.value))

\* response.headers.get('content-type') || ''
contentType == OrEmpty(response.contentType)

Arguments(text, files, authConfig, chatId) ==
    [text |-> text, files |-> files, authConfig |-> authConfig, chatId |-> chatId]

\* Before the call there are no arguments.
NoArguments == Arguments(<<>>, <<>>, Auth("none", NoStr, NoStr, NoStr, NoStr, NoStr), <<>>)

\* The App as it is when nothing has been configured or sent.
AppIdle ==
    /\ messages = <<>>
    /\ webhookUrl = <<>>
    /\ appAuthConfig = Auth("none", NoStr, NoStr, NoStr, NoStr, NoStr)
    /\ isLoading = FALSE
    /\ appError = NoStr
    /\ isSettingsOpen = FALSE
    /\ localStorage = [n8nWebhookUrl |-> NoStr, n8nWebhookAuth |-> NoStr]
    /\ sent = <<>>
    /\ uuids = 0

\* ChatInput as it is mounted: nothing recorded, no recorder.
RecorderIdle ==
    /\ isRecording = FALSE
    /\ recordingTime = 0
    /\ inputFiles = <<>>
    /\ mediaRecorderRef = 0
    /\ timerIntervalRef = 0
    /\ isCancelledRef = FALSE
    /\ startCalls = 0
    /\ recordings = <<>>

\* The service worker as it is registered: not installed, an empty cache.
WorkerIdle ==
    /\ installed = FALSE
    /\ cache = {}
    /\ events = <<>>

Init ==
    /\ pc = "idle"
    /\ url = <<>>
    /\ formData = <<>>
    /\ headers = <<>>
    /\ posts = 0
    /\ response = NoResponse
    /\ errorText = NoStr
    /\ responseText = NoStr
    /\ blob = NoBlob
    /\ base64Content = Undefined
    /\ result = Pending
    /\ arguments = NoArguments
    /\ RecorderIdle
    /\ WorkerIdle
    /\ mimeType = <<>>
    /\ extension = NoStr
    /\ AppIdle

\* sendToWebhook(url, text, files, authConfig, chatId) up to its first await: the
\* form data, the headers (btoa may throw, outside the try) and the call of fetch.
Send(u, text, files, authConfig, chatId) ==
    /\ pc = "idle"
    /\ url' = u
    /\ formData' = BuildFormData(text, chatId, files)
    /\ LET h == BuildHeaders(authConfig)
       IN IF h.kind = "throw"
          THEN /\ headers' = <<>>
               /\ posts' = posts
               /\ result' = Rejected(h.value)
               /\ pc' = "done"
          ELSE /\ headers' = h.value
               /\ posts' = IF FetchRejectsHeaders(h.value) THEN posts ELSE posts + 1
               /\ result' = result
               /\ pc' = "fetch"
    /\ arguments' = Arguments(text, files, authConfig, chatId)
    /\ UNCHANGED <<response, errorText, responseText, blob, base64Content, extVars, appVars,
                 recVars, workerVars>>

\* fetch rejects: no response was obtained (or the headers were refused).
FetchReject ==
    /\ pc = "fetch"
    /\ result' = Settle(Throw(Err("TypeError", S_FailedToFetch)))
    /\ pc' = "done"
    /\ UNCHANGED <<url, formData, headers, posts, response, errorText, responseText, blob,
                   base64Content>>
    /\ UNCHANGED <<arguments, extVars, appVars, recVars, workerVars>>

\* fetch resolves with a response; the code runs on to its next await.
FetchResolve(r) ==
    /\ pc = "fetch"
    /\ posts > 0
    /\ response' = r
    /\ pc' = IF ~Ok(r.status) THEN "errorText"
             ELSE IF IsFileResponse(OrEmpty(r.contentType)) THEN "blob"
             ELSE "responseText"
    /\ UNCHANGED <<url, formData, headers, posts, errorText, responseText, blob,
                   base64Content, result>>
    /\ UNCHANGED <<arguments, extVars, appVars, recVars, workerVars>>

\* await response.text() of a failed response resolves; the error is thrown.
ErrorTextResolve ==
    /\ pc = "errorText"
    /\ errorText' = Some(DecodeText(response.body))
    /\ result' = Settle(Throw(Err("Error",
                    RequestFailedMessage(response.status, response.statusText,
                                         DecodeText(response.body)))))
    /\ pc' = "done"
    /\ UNCHANGED <<url, formData, headers, posts, response, responseText, blob,
                   base64Content>>
    /\ UNCHANGED <<arguments, extVars, appVars, recVars, workerVars>>

\* await response.text() of a failed response rejects.
ErrorTextReject(e) ==
    /\ pc = "errorText"
    /\ result' = Settle(Throw(e))
    /\ pc' = "done"
    /\ UNCHANGED <<url, formData, headers, posts, response, errorText, responseText, blob,
                   base64Content>>
    /\ UNCHANGED <<arguments, extVars, appVars, recVars, workerVars>>

\* await response.blob() resolves: an empty blob ends the call, any other is read.
BlobResolve(type) ==
    /\ pc = "blob"
    /\ type \in {<<>>, ToLowerCase(contentType)}
    /\ blob' = [some |-> TRUE, type |-> type, bytes |-> response.body]
    /\ IF Len(response.body) = 0
       THEN result' = Settle(Return(JArr(<<>>))) /\ pc' = "done"
       ELSE result' = result /\ pc' = "base64"
    /\ UNCHANGED <<url, formData, headers, posts, response, errorText, responseText,
                   base64Content>>
    /\ UNCHANGED <<arguments, extVars, appVars, recVars, workerVars>>

BlobReject(e) ==
    /\ pc = "blob"
    /\ result' = Settle(Throw(e))
    /\ pc' = "done"
    /\ UNCHANGED <<url, formData, headers, posts, response, errorText, responseText, blob,
                   base64Content>>
    /\ UNCHANGED <<arguments, extVars, appVars, recVars, workerVars>>

\* await blobToBase64(blob) resolves; the item is built and returned.
Base64Resolve(iso) ==
    /\ pc = "base64"
    /\ base64Content' = blobToBase64(blob)
    /\ result' = Settle(ClassifyFile(blob, contentType, response.contentDisposition,
                                     blobToBase64(blob), iso))
    /\ pc' = "done"
    /\ UNCHANGED <<url, formData, headers, posts, response, errorText, responseText, blob>>
    /\ UNCHANGED <<arguments, extVars, appVars, recVars, workerVars>>

\* The FileReader fails: reader.onerror = reject, with the event.
Base64Reject ==
    /\ pc = "base64"
    /\ result' = Settle(Throw(NonError("ProgressEvent")))
    /\ pc' = "done"
    /\ UNCHANGED <<url, formData, headers, posts, response, errorText, responseText, blob,
                   base64Content>>
    /\ UNCHANGED <<arguments, extVars, appVars, recVars, workerVars>>

\* await response.text() of a JSON or text response resolves; it is classified.
ResponseTextResolve ==
    /\ pc = "responseText"
    /\ responseText' = Some(DecodeText(response.body))
    /\ result' = Settle(ClassifyText(DecodeText(response.body)))
    /\ pc' = "done"
    /\ UNCHANGED <<url, formData, headers, posts, response, errorText, blob, base64Content>>
    /\ UNCHANGED <<arguments, extVars, appVars, recVars, workerVars>>

ResponseTextReject(e) ==
    /\ pc = "responseText"
    /\ result' = Settle(Throw(e))
    /\ pc' = "done"
    /\ UNCHANGED <<url, formData, headers, posts, response, errorText, responseText, blob,
                   base64Content>>
    /\ UNCHANGED <<arguments, extVars, appVars, recVars, workerVars>>

Next ==
    \/ \E text \in Texts, files \in FileLists, authConfig \in AuthConfigs :
          Send(Url1, text, files, authConfig, ChatId1)
    \/ FetchReject
    \/ \E r \in Responses : FetchResolve(r)
    \/ ErrorTextResolve
    \/ \E e \in BodyReadErrors : ErrorTextReject(e)
    \/ \E type \in {<<>>, ToLowerCase(contentType)} : BlobResolve(type)
    \/ \E e \in BodyReadErrors : BlobReject(e)
    \/ \E iso \in Clock : Base64Resolve(iso)
    \/ Base64Reject
    \/ ResponseTextResolve
    \/ \E e \in BodyReadErrors : ResponseTextReject(e)

Spec == Init /\ [][Next]_vars

\* ------------------------------------------------------------------------
\* getExtensionFromMimeType on its own: one call on any of the inputs
\* ------------------------------------------------------------------------

ExtensionInit ==
    /\ pc = "idle"
    /\ url = <<>>
    /\ formData = <<>>
    /\ headers = <<>>
    /\ posts = 0
    /\ response = NoResponse
    /\ errorText = NoStr
    /\ responseText = NoStr
    /\ blob = NoBlob
    /\ base64Content = Undefined
    /\ result = Pending
    /\ arguments = NoArguments
    /\ RecorderIdle
    /\ WorkerIdle
    /\ mimeType \in MimeTypes
    /\ extension = NoStr
    /\ AppIdle

CallGetExtension ==
    /\ ~extension.some
    /\ extension' = Some(getExtensionFromMimeType(mimeType))
    /\ UNCHANGED <<pc, url, formData, headers, posts, response, errorText, responseText,
                   blob, base64Content, result, arguments, mimeType>>
    /\ UNCHANGED <<appVars, recVars, workerVars>>

ExtensionNext == CallGetExtension

ExtensionSpec == ExtensionInit /\ [][ExtensionNext]_vars

\* ------------------------------------------------------------------------
\* App: the conversation, handleSendMessage and the promise it awaits
\* ------------------------------------------------------------------------

S_id == <<"i","d">>
S_sender == <<"s","e","n","d","e","r">>
S_timestamp == <<"t","i","m","e","s","t","a","m","p">>
S_user == <<"u","s","e","r">>
S_bot == <<"b","o","t">>
S_initial1 == <<"i","n","i","t","i","a","l","-","1">>
S_ready ==
    <<"I","'","m"," ","r","e","a","d","y","!"," ","S","e","n","d"," ","a"," ","m","e","s","s",
      "a","g","e"," ","t","o"," ","s","t","a","r","t"," ","i","n","t","e","r","a","c","t","i",
      "n","g"," ","w","i","t","h"," ","y","o","u","r"," ","n","8","n"," ","w","o","r","k","f",
      "l","o","w",".">>
S_welcome ==
    <<"W","e","l","c","o","m","e","!"," ","P","l","e","a","s","e"," ","s","e","t"," ","y","o",
      "u","r"," ","n","8","n"," ","W","e","b","h","o","o","k"," ","U","R","L"," ","i","n"," ",
      "t","h","e"," ","s","e","t","t","i","n","g","s"," ","t","o"," ","g","e","t"," ","s","t",
      "a","r","t","e","d",".">>
S_userTextDash == <<"u","s","e","r","-","t","e","x","t","-">>
S_userFileDash == <<"u","s","e","r","-","f","i","l","e","-">>
S_botDash == <<"b","o","t","-">>
S_botErrorDash == <<"b","o","t","-","e","r","r","o","r","-">>
S_ErrorColon == <<"E","r","r","o","r",":"," ">>
S_unknownError ==
    <<"A","n"," ","u","n","k","n","o","w","n"," ","e","r","r","o","r"," ","o","c","c","u","r",
      "r","e","d",".">>
S_blobColon == <<"b","l","o","b",":">>
S_httpColon == <<"h","t","t","p",":">>
S_httpsColon == <<"h","t","t","p","s",":">>
S_cannotReadNull ==
    <<"C","a","n","n","o","t"," ","r","e","a","d"," ","p","r","o","p","e","r","t","i","e","s",
      " ","o","f"," ","n","u","l","l"," ","(","r","e","a","d","i","n","g"," ","'","c","o","n",
      "t","e","n","t","'",")">>

S_urlNotSet ==
    <<"W","e","b","h","o","o","k"," ","U","R","L"," ","i","s"," ","n","o","t"," ","s","e","t",
      "."," ","P","l","e","a","s","e"," ","c","o","n","f","i","g","u","r","e"," ","i","t"," ",
      "i","n"," ","t","h","e"," ","s","e","t","t","i","n","g","s",".">>
Url2 ==
    <<"h","t","t","p","s",":","/","/","n","8","n",".","e","x","a","m","p","l","e","/","w","e",
      "b","h","o","o","k","/","o","t","h","e","r">>
S_username == <<"u","s","e","r","n","a","m","e">>
S_password == <<"p","a","s","s","w","o","r","d">>
S_headerName == <<"h","e","a","d","e","r","N","a","m","e">>
S_headerValue == <<"h","e","a","d","e","r","V","a","l","u","e">>
S_token == <<"t","o","k","e","n">>

MaxSends == 2

Now1 == <<"1","7","3","0","0","0","0","0","0","0","0","0","0">>
UuidStem ==
    <<"3","f","2","b","9","c","1","e","-","0","0","0","0","-","4","0","0","0","-","8","0","0",
      "0","-","0","0","0","0","0","0","0","0","0","0","0">>
B64_abc == <<"Q","U","J","D">>
Url_cdn ==
    <<"h","t","t","p","s",":","/","/","c","d","n",".","e","x","a","m","p","l","e","/","a",".",
      "p","n","g">>
Msg_boom ==
    <<"R","e","q","u","e","s","t"," ","f","a","i","l","e","d",":"," ","5","0","0"," ","I","n",
      "t","e","r","n","a","l"," ","S","e","r","v","e","r"," ","E","r","r","o","r","."," ","S",
      "e","r","v","e","r"," ","r","e","s","p","o","n","s","e",":"," ","b","o","o","m">>
Id_forged == <<"u","s","e","r","-","t","e","x","t","-","1","-","0">>

\* What ChatInput hands to onSendMessage: its text and its files.
Contents ==
    { [text |-> Text_hi, files |-> <<File(Name_aPng, Mime_imagePng, <<137, 80>>),
                                     File(Name_nTxt, Mime_textPlain, <<>>)>>],
      [text |-> B_blank, files |-> <<File(Name_aPng, Mime_imagePng, <<137, 80>>)>>] }

\* Date.now(), as the template literals of the ids print it.
DateNow == {Now1}

\* crypto.randomUUID(): a version 4 UUID; the n-th one generated differs from
\* every one generated before it.
randomUUID_Same(n) == UuidStem \o NumToStr(0)

randomUUID(n) == UuidStem \o NumToStr(n)

\* URL.createObjectURL(file): a blob: URL that stands for the file.
createObjectURL(file) == S_blobColon \o file.name

\* const initialMessages of the effect on webhookUrl
initialMessages(u, iso) ==
    <<JObj(<<Prop(S_id, JStr(S_initial1)), Prop(S_sender, JStr(S_bot)),
             Prop(S_type, JStr(S_text)),
             Prop(S_content, JStr(IF u # <<>> THEN S_ready ELSE S_welcome)),
             Prop(S_timestamp, JStr(iso))>>)>>

\* The echo of the text, if it is not blank, with messageIdCounter++ as its index.
UserTextMessages(content, now, iso) ==
    IF Trim(content.text) # <<>>
    THEN <<JObj(<<Prop(S_id, JStr(S_userTextDash \o now \o <<"-">> \o NumToStr(0))),
                  Prop(S_sender, JStr(S_user)),
                  Prop(S_type, JStr(S_text)),
                  Prop(S_content, JStr(content.text)),
                  Prop(S_timestamp, JStr(iso))>>)>>
    ELSE <<>>

\* const userMessages: the echo of the text and of each file, in that order.
UserMessages(content, now, iso) ==
    UserTextMessages(content, now, iso)
    \o [i \in 1..Len(content.files) |->
          JObj(<<Prop(S_id, JStr(S_userFileDash \o now \o <<"-">>
                                 \o NumToStr(Len(UserTextMessages(content, now, iso)) + i - 1))),
                 Prop(S_sender, JStr(S_user)),
                 Prop(S_type, JStr(getMessageType(content.files[i].type))),
                 Prop(S_content, JStr(createObjectURL(content.files[i]))),
                 Prop(S_fileName, JStr(content.files[i].name)),
                 Prop(S_timestamp, JStr(iso))>>)]

\* /^(https?|blob|data):/.test(s)
SchemeTest(s) ==
    \/ StartsWith(s, S_httpColon)
    \/ StartsWith(s, S_httpsColon)
    \/ StartsWith(s, S_blobColon)
    \/ StartsWith(s, S_dataColon)

\* res.content && !/^(https?|blob|data):/.test(res.content), for a content that
\* is a string or is missing.
isBase64Like(res) ==
    /\ Truthy(Get(res, S_content))
    /\ ~SchemeTest(Get(res, S_content).v)

finalContent_NoSchemeTest(res) ==
    IF /\ Get(res, S_type) # JStr(S_text)
       /\ Truthy(Get(res, S_mimeType))
       /\ Truthy(Get(res, S_content))
    THEN JStr(S_dataColon \o Get(res, S_mimeType).v \o S_base64Comma \o Get(res, S_content).v)
    ELSE Get(res, S_content)


\* let finalContent
finalContent(res) ==
    IF /\ Get(res, S_type) # JStr(S_text)
       /\ Truthy(Get(res, S_mimeType))
       /\ isBase64Like(res)
    THEN JStr(S_dataColon \o Get(res, S_mimeType).v \o S_base64Comma \o Get(res, S_content).v)
    ELSE Get(res, S_content)

\* { ...target, ...res }: the properties of res set on target, in their order.
RECURSIVE Spread(_, _)
Spread(target, props) ==
    IF props = <<>> THEN target
    ELSE Spread(SetProp(target, Head(props).k, Head(props).v), Tail(props))

\* { id, sender: 'bot', timestamp, ...res, content: finalContent }
ResponseMessage(res, index, now, iso) ==
    JObj(SetProp(Spread(<<Prop(S_id, JStr(S_botDash \o now \o <<"-">> \o NumToStr(index))),
                          Prop(S_sender, JStr(S_bot)),
                          Prop(S_timestamp, JStr(iso))>>,
                        res.v),
                 S_content, finalContent(res)))

\* botResponses.map(...): reading res.content of null or undefined is a TypeError.
ResponseMessages(botResponses, now, iso) ==
    IF \E i \in 1..Len(botResponses.v) : botResponses.v[i].t \in {"null", "undefined"}
    THEN Throw(Err("TypeError", S_cannotReadNull))
    ELSE Return([i \in 1..Len(botResponses.v) |->
                   ResponseMessage(botResponses.v[i], i - 1, now, iso)])

\* err instanceof Error ? err.message : 'An unknown error occurred.'
ErrorMessage(err) == IF err.v.isError THEN err.v.message ELSE S_unknownError

ErrorBotMessage(err, now, iso) ==
    JObj(<<Prop(S_id, JStr(S_botErrorDash \o now)),
           Prop(S_sender, JStr(S_bot)),
           Prop(S_type, JStr(S_text)),
           Prop(S_content, JStr(S_ErrorColon \o ErrorMessage(err))),
           Prop(S_timestamp, JStr(iso))>>)

\* What the awaited sendToWebhook can be fulfilled with.
BotResponses ==
    { JArr(<<>>),
      JArr(<<JObj(<<Prop(S_type, JStr(S_image)), Prop(S_content, JStr(B64_abc)),
                    Prop(S_fileName, JStr(Name_aPng)),
                    Prop(S_mimeType, JStr(Mime_imagePng))>>)>>),
      JArr(<<JObj(<<Prop(S_type, JStr(S_image)), Prop(S_content, JStr(Url_cdn)),
                    Prop(S_mimeType, JStr(Mime_imagePng))>>),
             TextResponse(Text_hi)>>),
      JArr(<<JObj(<<Prop(S_type, JStr(S_text)), Prop(S_content, JStr(Text_hi)),
                    Prop(S_sender, JStr(S_user)), Prop(S_id, JStr(Id_forged))>>)>>),
      JArr(<<JNull>>) }

\* What it can be rejected with.
SendErrors == {Err("Error", Msg_boom), NonError("ProgressEvent")}

\* The name of an authentication type, in characters.
AuthTypeName(type) ==
    CASE type = "basic" -> <<"b","a","s","i","c">>
      [] type = "header" -> <<"h","e","a","d","e","r">>
      [] type = "jwt" -> <<"j","w","t">>
      [] OTHER -> <<"n","o","n","e">>

\* "key":"value" of JSON.stringify, for a value without quotes or backslashes.
JSONMember(key, value) == <<"\"">> \o key \o <<"\"", ":", "\"">> \o value \o <<"\"">>

\* ,"key":"value" for a field that is set, nothing for one that is not.
JSONOptional(key, o) == IF o.some THEN <<",">> \o JSONMember(key, o.v) ELSE <<>>

\* JSON.stringify(config): the type, then the fields the settings form has set.
JSONStringify(config) ==
    <<"{">> \o JSONMember(S_type, AuthTypeName(config.type))
    \o JSONOptional(S_username, config.username)
    \o JSONOptional(S_password, config.password)
    \o JSONOptional(S_headerName, config.headerName)
    \o JSONOptional(S_headerValue, config.headerValue)
    \o JSONOptional(S_token, config.token)
    \o <<"}">>

\* What the settings form can be saved with: a URL that is not blank, trimmed,
\* and an authentication configuration.
SettingsUrls == {Url1, Url2}

SettingsAuthConfigs == {Auth("jwt", NoStr, NoStr, NoStr, NoStr, Some(Cred_token))}

\* The state the App starts in: the URL localStorage holds if any, the welcome
\* message of the first effect, nothing sent.
AppInit ==
    /\ pc = "idle"
    /\ url = <<>>
    /\ formData = <<>>
    /\ headers = <<>>
    /\ posts = 0
    /\ response = NoResponse
    /\ errorText = NoStr
    /\ responseText = NoStr
    /\ blob = NoBlob
    /\ base64Content = Undefined
    /\ result = Pending
    /\ arguments = NoArguments
    /\ RecorderIdle
    /\ WorkerIdle
    /\ mimeType = <<>>
    /\ extension = NoStr
    /\ localStorage \in {[n8nWebhookUrl |-> NoStr, n8nWebhookAuth |-> NoStr],
                         [n8nWebhookUrl |-> Some(Url1), n8nWebhookAuth |-> NoStr]}
    /\ webhookUrl = OrEmpty(localStorage.n8nWebhookUrl)
    /\ appAuthConfig = Auth("none", NoStr, NoStr, NoStr, NoStr, NoStr)
    /\ messages \in {initialMessages(webhookUrl, iso) : iso \in Clock}
    /\ isLoading = FALSE
    /\ appError = NoStr
    /\ isSettingsOpen = FALSE
    /\ sent = <<>>
    /\ uuids = 0

\* <ChatInput disabled={isLoading || !webhookUrl} />
disabled_UrlOnly == webhookUrl = <<>>

disabled == isLoading \/ webhookUrl = <<>>

handleSendMessage_NoUrlCheck(content, now, iso) ==
    /\ Len(sent) < MaxSends
    /\ appError' = NoStr
    /\ messages' = messages \o UserMessages(content, now, iso)
    /\ isLoading' = TRUE
    /\ uuids' = uuids + 1
    /\ sent' = Append(sent, [url |-> webhookUrl, text |-> content.text,
                             files |-> content.files, authConfig |-> appAuthConfig,
                             chatId |-> randomUUID(uuids + 1), state |-> "pending",
                             value |-> Undefined])
    /\ UNCHANGED <<webhookUrl, appAuthConfig, isSettingsOpen, localStorage>>
    /\ UNCHANGED <<sendVars, extVars, recVars, workerVars>>


\* handleSendMessage(content) up to its await. Without a webhook URL it sets the
\* error and returns; otherwise the user's messages are shown, isLoading is set
\* and sendToWebhook is called with a chatId of its own.
handleSendMessage(content, now, iso) ==
    /\ Len(sent) < MaxSends
    /\ IF webhookUrl = <<>>
       THEN /\ appError' = Some(S_urlNotSet)
            /\ UNCHANGED <<messages, isLoading, uuids, sent>>
       ELSE /\ appError' = NoStr
            /\ messages' = messages \o UserMessages(content, now, iso)
            /\ isLoading' = TRUE
            /\ uuids' = uuids + 1
            /\ sent' = Append(sent, [url |-> webhookUrl, text |-> content.text,
                                     files |-> content.files, authConfig |-> appAuthConfig,
                                     chatId |-> randomUUID(uuids + 1), state |-> "pending",
                                     value |-> Undefined])
    /\ UNCHANGED <<webhookUrl, appAuthConfig, isSettingsOpen, localStorage>>
    /\ UNCHANGED <<sendVars, extVars, recVars, workerVars>>

\* ChatInput.handleSend: nothing when disabled or when there is nothing to send,
\* else onSendMessage({ text, files }).
HandleSend(content, now, iso) ==
    /\ ~(disabled \/ (Trim(content.text) = <<>> /\ Len(content.files) = 0))
    /\ handleSendMessage(content, now, iso)

\* The awaited promise is fulfilled: the items become messages, or the mapping
\* throws and the catch block reports it; finally isLoading is reset.
SendFulfilled(i, botResponses, now, iso) ==
    /\ i \in 1..Len(sent) /\ sent[i].state = "pending"
    /\ sent' = [sent EXCEPT ![i].state = "fulfilled", ![i].value = botResponses]
    /\ LET mapped == ResponseMessages(botResponses, now, iso)
       IN IF mapped.kind = "return"
          THEN /\ messages' = messages \o mapped.value
               /\ appError' = appError
          ELSE /\ messages' = Append(messages, ErrorBotMessage(mapped.value, now, iso))
               /\ appError' = Some(ErrorMessage(mapped.value))
    /\ isLoading' = FALSE
    /\ UNCHANGED <<webhookUrl, appAuthConfig, uuids, isSettingsOpen, localStorage>>
    /\ UNCHANGED <<sendVars, extVars, recVars, workerVars>>

SendRejected_NoFinally(i, err, now, iso) ==
    /\ i \in 1..Len(sent) /\ sent[i].state = "pending"
    /\ sent' = [sent EXCEPT ![i].state = "rejected", ![i].value = err]
    /\ appError' = Some(ErrorMessage(err))
    /\ messages' = Append(messages, ErrorBotMessage(err, now, iso))
    /\ UNCHANGED <<isLoading, webhookUrl, appAuthConfig, uuids, isSettingsOpen, localStorage>>
    /\ UNCHANGED <<sendVars, extVars, recVars, workerVars>>


\* The awaited promise is rejected: the catch block, then finally.
SendRejected(i, err, now, iso) ==
    /\ i \in 1..Len(sent) /\ sent[i].state = "pending"
    /\ sent' = [sent EXCEPT ![i].state = "rejected", ![i].value = err]
    /\ appError' = Some(ErrorMessage(err))
    /\ messages' = Append(messages, ErrorBotMessage(err, now, iso))
    /\ isLoading' = FALSE
    /\ UNCHANGED <<webhookUrl, appAuthConfig, uuids, isSettingsOpen, localStorage>>
    /\ UNCHANGED <<sendVars, extVars, recVars, workerVars>>

\* The settings button: onClick={() => setIsSettingsOpen(true)}
OpenSettings ==
    /\ ~isSettingsOpen
    /\ isSettingsOpen' = TRUE
    /\ UNCHANGED <<messages, webhookUrl, appAuthConfig, isLoading, appError, localStorage,
                   sent, uuids>>
    /\ UNCHANGED <<sendVars, extVars, recVars, workerVars>>

\* SettingsModal onClose
CloseSettings ==
    /\ isSettingsOpen
    /\ isSettingsOpen' = FALSE
    /\ UNCHANGED <<messages, webhookUrl, appAuthConfig, isLoading, appError, localStorage,
                   sent, uuids>>
    /\ UNCHANGED <<sendVars, extVars, recVars, workerVars>>

\* SettingsModal.handleSave calls handleSaveSettings(url, config); when the URL is
\* a new one the effect on webhookUrl then replaces the messages by the greeting.
handleSaveSettings(u, config, iso) ==
    /\ isSettingsOpen
    /\ webhookUrl' = u
    /\ appAuthConfig' = config
    /\ localStorage' = [n8nWebhookUrl |-> Some(u),
                        n8nWebhookAuth |-> Some(JSONStringify(config))]
    /\ isSettingsOpen' = FALSE
    /\ messages' = IF u # webhookUrl THEN initialMessages(u, iso) ELSE messages
    /\ UNCHANGED <<isLoading, appError, sent, uuids>>
    /\ UNCHANGED <<sendVars, extVars, recVars, workerVars>>

AppNext ==
    \/ \E content \in Contents, now \in DateNow, iso \in Clock : HandleSend(content, now, iso)
    \/ \E i \in 1..MaxSends, botResponses \in BotResponses, now \in DateNow, iso \in Clock :
          SendFulfilled(i, botResponses, now, iso)
    \/ \E i \in 1..MaxSends, err \in SendErrors, now \in DateNow, iso \in Clock :
          SendRejected(i, err, now, iso)
    \/ OpenSettings
    \/ CloseSettings
    \/ \E u \in SettingsUrls, config \in SettingsAuthConfigs, iso \in Clock :
          handleSaveSettings(u, config, iso)

AppSpec == AppInit /\ [][AppNext]_vars

\* handleSendMessage as a function any caller may invoke, whatever ChatInput
\* would have allowed.
HandlerNext ==
    \/ \E content \in Contents, now \in DateNow, iso \in Clock :
          handleSendMessage(content, now, iso)
    \/ \E i \in 1..MaxSends, botResponses \in BotResponses, now \in DateNow, iso \in Clock :
          SendFulfilled(i, botResponses, now, iso)
    \/ \E i \in 1..MaxSends, err \in SendErrors, now \in DateNow, iso \in Clock :
          SendRejected(i, err, now, iso)

HandlerSpec == AppInit /\ [][HandlerNext]_vars

\* ------------------------------------------------------------------------
\* ChatInput: audio recording
\* ------------------------------------------------------------------------

MaxStarts == 3

MaxRecordingTime == 1

\* What a call of startRecording creates once getUserMedia has resolved: the
\* MediaStream, the MediaRecorder on it (stopEvent: its stop event is queued;
\* stoppedBy: the handler that called stop() on it) and the interval.
NewRecording ==
    [stream |-> "live", recorder |-> "recording", stopEvent |-> FALSE,
     stoppedBy |-> "none", interval |-> "active"]

RecordingInit ==
    /\ pc = "idle"
    /\ url = <<>>
    /\ formData = <<>>
    /\ headers = <<>>
    /\ posts = 0
    /\ response = NoResponse
    /\ errorText = NoStr
    /\ responseText = NoStr
    /\ blob = NoBlob
    /\ base64Content = Undefined
    /\ result = Pending
    /\ arguments = NoArguments
    /\ mimeType = <<>>
    /\ extension = NoStr
    /\ AppIdle
    /\ RecorderIdle
    /\ WorkerIdle

\* startRecording up to `await navigator.mediaDevices.getUserMedia(...)`.
startRecording ==
    /\ ~isRecording
    /\ startCalls + Len(recordings) < MaxStarts
    /\ startCalls' = startCalls + 1
    /\ UNCHANGED <<isRecording, recordingTime, inputFiles, mediaRecorderRef,
                   timerIntervalRef, isCancelledRef, recordings>>

\* mediaRecorderRef.current.stop() of stopRecording and cancelRecording, after
\* their common guard; the recorder is inactive at once, its stop event queued.
StopRecorder(cancelled, handler) ==
    /\ isRecording
    /\ mediaRecorderRef # 0
    /\ recordings[mediaRecorderRef].recorder # "inactive"
    /\ isCancelledRef' = cancelled
    /\ recordings' = [recordings EXCEPT ![mediaRecorderRef].recorder = "inactive",
                                        ![mediaRecorderRef].stopEvent = TRUE,
                                        ![mediaRecorderRef].stoppedBy = handler]
    /\ UNCHANGED <<isRecording, recordingTime, inputFiles, mediaRecorderRef,
                   timerIntervalRef, startCalls>>

stopRecording == StopRecorder(FALSE, "stopRecording")

\* The mic button.
toggleRecording ==
    /\ IF isRecording THEN stopRecording ELSE startRecording
    /\ UNCHANGED <<sendVars, extVars, appVars, workerVars>>

\* The cancel button.
cancelRecording ==
    /\ StopRecorder(TRUE, "cancelRecording")
    /\ UNCHANGED <<sendVars, extVars, appVars, workerVars>>

\* getUserMedia resolves: the rest of the try block of one waiting call.
GetUserMediaResolve ==
    /\ startCalls > 0
    /\ startCalls' = startCalls - 1
    /\ recordings' = Append(recordings, NewRecording)
    /\ mediaRecorderRef' = Len(recordings) + 1
    /\ isCancelledRef' = FALSE
    /\ isRecording' = TRUE
    /\ timerIntervalRef' = Len(recordings) + 1
    /\ UNCHANGED <<recordingTime, inputFiles>>
    /\ UNCHANGED <<sendVars, extVars, appVars, workerVars>>

\* getUserMedia rejects: the catch block logs and alerts.
GetUserMediaReject ==
    /\ startCalls > 0
    /\ startCalls' = startCalls - 1
    /\ UNCHANGED <<isRecording, recordingTime, inputFiles, mediaRecorderRef,
                   timerIntervalRef, isCancelledRef, recordings>>
    /\ UNCHANGED <<sendVars, extVars, appVars, workerVars>>

\* stopRecordingCleanup: what it does to the intervals.
stopRecordingCleanup(rs) ==
    IF timerIntervalRef # 0
    THEN [rs EXCEPT ![timerIntervalRef].interval = "cleared"]
    ELSE rs

\* mediaRecorder.onstop of the r-th recorder.
OnStop(r) ==
    /\ r \in 1..Len(recordings)
    /\ recordings[r].stopEvent
    /\ inputFiles' = IF ~isCancelledRef THEN Append(inputFiles, r) ELSE inputFiles
    /\ recordings' = stopRecordingCleanup([recordings EXCEPT ![r].stopEvent = FALSE,
                                                             ![r].stream = "ended"])
    /\ timerIntervalRef' = 0
    /\ isRecording' = FALSE
    /\ recordingTime' = 0
    /\ UNCHANGED <<mediaRecorderRef, isCancelledRef, startCalls>>
    /\ UNCHANGED <<sendVars, extVars, appVars, workerVars>>

\* The callback of the r-th interval: setRecordingTime(prevTime => prevTime + 1)
Tick(r) ==
    /\ r \in 1..Len(recordings)
    /\ recordings[r].interval = "active"
    /\ recordingTime < MaxRecordingTime
    /\ recordingTime' = recordingTime + 1
    /\ UNCHANGED <<isRecording, inputFiles, mediaRecorderRef, timerIntervalRef,
                   isCancelledRef, startCalls, recordings>>
    /\ UNCHANGED <<sendVars, extVars, appVars, workerVars>>

RecordingNext ==
    \/ toggleRecording
    \/ cancelRecording
    \/ GetUserMediaResolve
    \/ GetUserMediaReject
    \/ \E r \in 1..MaxStarts : OnStop(r)
    \/ \E r \in 1..MaxStarts : Tick(r)

RecordingSpec == RecordingInit /\ [][RecordingNext]_vars

\* ------------------------------------------------------------------------
\* The service worker
\* ------------------------------------------------------------------------

MaxEvents == 2

CORE_ASSETS ==
    { <<"/">>,
      <<"/","i","n","d","e","x",".","h","t","m","l">>,
      <<"/","i","n","d","e","x",".","t","s","x">>,
      <<"/","i","c","o","n",".","s","v","g">>,
      <<"/","m","a","n","i","f","e","s","t",".","j","s","o","n">> }

CDN_ASSETS ==
    { <<"h","t","t","p","s",":","/","/","c","d","n",".","t","a","i","l","w","i","n","d","c","s","s",".","c","o","m">>,
      <<"h","t","t","p","s",":","/","/","a","i","s","t","u","d","i","o","c","d","n",".","c","o","m","/","r","e","a","c","t","@","^","1","9",".","2",".","0">>,
      <<"h","t","t","p","s",":","/","/","a","i","s","t","u","d","i","o","c","d","n",".","c","o","m","/","r","e","a","c","t","-","d","o","m","@","^","1","9",".","2",".","0">>,
      <<"h","t","t","p","s",":","/","/","a","i","s","t","u","d","i","o","c","d","n",".","c","o","m","/","r","e","a","c","t","@","^","1","9",".","2",".","0","/">>,
      <<"h","t","t","p","s",":","/","/","a","i","s","t","u","d","i","o","c","d","n",".","c","o","m","/","r","e","a","c","t","-","d","o","m","@","^","1","9",".","2",".","0","/">>,
      <<"h","t","t","p","s",":","/","/","e","s","m",".","s","h","/","r","e","a","c","t","-","m","a","r","k","d","o","w","n","@","9","?","b","u","n","d","l","e">>,
      <<"h","t","t","p","s",":","/","/","e","s","m",".","s","h","/","r","e","m","a","r","k","-","g","f","m","@","4","?","b","u","n","d","l","e">> }

S_webhookSlash == <<"/","w","e","b","h","o","o","k","/">>
Url_style == <<"/","i","n","d","e","x",".","c","s","s">>

\* The requests the page makes and the status the network can answer with
\* (0: an opaque response).
Requests ==
    { [method |-> "GET", url |-> Url_style],
      [method |-> "GET", url |-> <<"/">>],
      [method |-> "GET", url |-> Url1],
      [method |-> "POST", url |-> Url1] }

Statuses == {0, 200, 404}

\* An entry of the cache: the URL of the request it is stored under, the status
\* of the response, and the handler that stored it.
Entry(u, status, storedBy) == [url |-> u, status |-> status, storedBy |-> storedBy]

\* cache.put: the response replaces what was stored under the same request.
Put(c, entry) == {x \in c : x.url # entry.url} \cup {entry}

WorkerInit ==
    /\ pc = "idle"
    /\ url = <<>>
    /\ formData = <<>>
    /\ headers = <<>>
    /\ posts = 0
    /\ response = NoResponse
    /\ errorText = NoStr
    /\ responseText = NoStr
    /\ blob = NoBlob
    /\ base64Content = Undefined
    /\ result = Pending
    /\ arguments = NoArguments
    /\ mimeType = <<>>
    /\ extension = NoStr
    /\ AppIdle
    /\ RecorderIdle
    /\ WorkerIdle

\* The install event: cache.addAll(CORE_ASSETS) stores every core asset or none;
\* each CDN asset is fetched with mode no-cors, which gives an opaque response
\* of status 0, and put in the cache (here: all of them or, offline, none).
Install(core, cdn) ==
    /\ ~installed
    /\ installed' = TRUE
    /\ cache' = {Entry(u, 200, "install") : u \in core}
                \cup {Entry(u, 0, "install") : u \in cdn}
    /\ UNCHANGED events
    /\ UNCHANGED <<sendVars, extVars, appVars, recVars>>

\* if (event.request.method !== 'GET') return;
Handles(request) == request.method = "GET"

\* // Don't cache API calls: event.request.url.includes('/webhook/')
IsApiCall_Never(u) == FALSE

IsApiCall(u) == Includes(u, S_webhookSlash)

\* A fetch event: the handler returns at once for a method other than GET (the
\* browser then performs the request itself), else it responds with the
\* promise that starts with caches.match.
OnFetch(request) ==
    /\ installed
    /\ Len(events) < MaxEvents
    /\ events' = Append(events,
                    IF Handles(request)
                    THEN [request |-> request, phase |-> "match", answer |-> "none",
                          status |-> 0]
                    ELSE [request |-> request, phase |-> "done", answer |-> "browser",
                          status |-> 0])
    /\ UNCHANGED <<installed, cache>>
    /\ UNCHANGED <<sendVars, extVars, appVars, recVars>>

\* caches.match(event.request) resolves: the cached response, or on to fetch.
MatchResolve(e) ==
    /\ e \in 1..Len(events)
    /\ events[e].phase = "match"
    /\ LET hits == {x \in cache : x.url = events[e].request.url}
       IN events' =
            IF hits # {}
            THEN [events EXCEPT ![e].phase = "done", ![e].answer = "cache",
                                ![e].status = (CHOOSE x \in hits : TRUE).status]
            ELSE [events EXCEPT ![e].phase = "fetch"]
    /\ UNCHANGED <<installed, cache>>
    /\ UNCHANGED <<sendVars, extVars, appVars, recVars>>

\* fetch(event.request) resolves: the response is returned; one of status 200
\* that is no API call is also cloned for the cache.
NetworkResolve(e, status) ==
    /\ e \in 1..Len(events)
    /\ events[e].phase = "fetch"
    /\ events' = [events EXCEPT
                    ![e].answer = "network",
                    ![e].status = status,
                    ![e].phase = IF status # 200 THEN "done"
                                 ELSE IF ~IsApiCall(events[e].request.url) THEN "put"
                                 ELSE "done"]
    /\ UNCHANGED <<installed, cache>>
    /\ UNCHANGED <<sendVars, extVars, appVars, recVars>>

\* fetch(event.request) rejects: the catch logs, the event is answered with
\* undefined, which the browser turns into a network error.
NetworkReject(e) ==
    /\ e \in 1..Len(events)
    /\ events[e].phase = "fetch"
    /\ events' = [events EXCEPT ![e].phase = "done", ![e].answer = "error"]
    /\ UNCHANGED <<installed, cache>>
    /\ UNCHANGED <<sendVars, extVars, appVars, recVars>>

\* caches.open(CACHE_NAME).then(cache => cache.put(event.request, responseToCache))
CachePut(e) ==
    /\ e \in 1..Len(events)
    /\ events[e].phase = "put"
    /\ cache' = Put(cache, Entry(events[e].request.url, events[e].status, "fetch"))
    /\ events' = [events EXCEPT ![e].phase = "done"]
    /\ UNCHANGED installed
    /\ UNCHANGED <<sendVars, extVars, appVars, recVars>>

WorkerNext ==
    \/ \E core \in {{}, CORE_ASSETS}, cdn \in {{}, CDN_ASSETS} : Install(core, cdn)
    \/ \E request \in Requests : OnFetch(request)
    \/ \E e \in 1..MaxEvents : MatchResolve(e)
    \/ \E e \in 1..MaxEvents, status \in Statuses : NetworkResolve(e, status)
    \/ \E e \in 1..MaxEvents : NetworkReject(e)
    \/ \E e \in 1..MaxEvents : CachePut(e)

WorkerSpec == WorkerInit /\ [][WorkerNext]_vars


\* ------------------------------------------------------------------------
\* The error kinds of the specification, as the code signals them
\* ------------------------------------------------------------------------

Settled == pc = "done"

IsSuccess == result.state = "fulfilled" /\ IsArray(result.value)

IsJsError == result.state = "rejected" /\ result.value.v.isError /\ result.value.v.name = "Error"

\* throw new Error("Network error or CORS issue. ...")
IsNetworkError == IsJsError /\ result.value.v.message = S_NetworkError

\* throw new Error(`Request failed: ...`)
IsHttpError == IsJsError /\ StartsWith(result.value.v.message, S_RequestFailed)

\* throw new Error("Invalid JSON structure from webhook. ...")
IsMalformedResponse == IsJsError /\ result.value.v.message = S_InvalidJson

\* s begins with the characters of p.
HasPrefix(s, p) == Len(s) >= Len(p) /\ \A i \in 1..Len(p) : s[i] = p[i]

\* A 2xx response that declares a JSON or a text content type, as the claims put it.
DeclaresJsonOrText ==
    /\ response.some
    /\ response.status \in 200..299
    /\ response.contentType.some
    /\ \/ HasPrefix(response.contentType.v, S_applicationJson)
       \/ HasPrefix(response.contentType.v, S_textSlash)

\* The call has ended after reading the text of such a response.
TextClassified == Settled /\ DeclaresJsonOrText /\ responseText.some

\* The value JSON.parse gives for the text read.
parsedBody == JSONParse(responseText.v)

\* ------------------------------------------------------------------------
\* Claims
\* ------------------------------------------------------------------------

\* C1: a 2xx JSON or text response whose body is valid JSON of none of the three
\* shapes (no array, no array-valued responses, no string-valued text) makes the
\* call fail with the MalformedResponse error, never succeed.
C1_MalformedResponse ==
    ( /\ TextClassified
      /\ parsedBody.ok
      /\ ~IsArray(parsedBody.val)
      /\ ~IsArray(Get(parsedBody.val, S_responses))
      /\ ~TypeofString(Get(parsedBody.val, S_text)) )
    => IsMalformedResponse /\ ~IsSuccess

\* C2: every non-2xx response makes the call fail with an HttpError whose message
\* holds the status, the status text and the body text, and returns no item.
C2_HttpError ==
    (Settled /\ response.some /\ response.status \notin 200..299)
    => /\ IsHttpError
       /\ Includes(result.value.v.message, NumToStr(response.status))
       /\ Includes(result.value.v.message, response.statusText)
       /\ Includes(result.value.v.message, DecodeText(response.body))
       /\ ~IsSuccess

\* C3: when the body of a non-2xx response cannot be read, the call still fails
\* with the HttpError carrying the status, never with another error kind.
C3_ReadFailureSwallowed ==
    (Settled /\ response.some /\ response.status \notin 200..299 /\ ~errorText.some)
    => /\ IsHttpError
       /\ Includes(result.value.v.message, NumToStr(response.status))
       /\ ~IsNetworkError

\* C4: when the POST was issued and no response was obtained, the call fails with
\* the NetworkError, whose message is no HttpError message, and nothing of the
\* response classification has run.
C4_NetworkError ==
    (Settled /\ posts > 0 /\ ~response.some)
    => /\ IsNetworkError
       /\ ~IsHttpError
       /\ ~errorText.some /\ ~responseText.some /\ ~blob.some
       /\ base64Content = Undefined

C4_Witness == Settled /\ posts > 0 /\ ~response.some /\ result.state = "rejected"

\* C5: a settled call ended in one of Success, NetworkError, HttpError and
\* MalformedResponse, and only a settled call has a result.
C5_FourOutcomes ==
    /\ Settled => (IsSuccess \/ IsNetworkError \/ IsHttpError \/ IsMalformedResponse)
    /\ ~Settled => result = Pending

\* C6: a 2xx JSON or text response whose non-blank body is no JSON succeeds with
\* the one item {type: text, content: the body text unchanged}.
C6_ParseFailureIsText ==
    (TextClassified /\ Trim(responseText.v) # <<>> /\ ~parsedBody.ok)
    => result = Fulfilled(JArr(<<JObj(<<Prop(S_type, JStr(S_text)),
                                        Prop(S_content, JStr(DecodeText(response.body)))>>)>>))

C6_Witness ==
    /\ TextClassified /\ ~parsedBody.ok
    /\ responseText.v = B_plain
    /\ IsSuccess /\ Len(result.value.v) = 1

\* C7: a parsed object with a string-valued text (the empty string too) and no
\* array-valued responses gives the one item {type: text, content: that string}.
C7_TextShape ==
    ( /\ TextClassified
      /\ parsedBody.ok
      /\ parsedBody.val.t = "object"
      /\ TypeofString(Get(parsedBody.val, S_text))
      /\ ~IsArray(Get(parsedBody.val, S_responses)) )
    => result = Fulfilled(JArr(<<JObj(<<Prop(S_type, JStr(S_text)),
                                        Prop(S_content, Get(parsedBody.val, S_text))>>)>>))

\* The array a parsed value carries: its responses field, or the value itself.
CarriedArray(x) == IF IsArray(Get(x, S_responses)) THEN Get(x, S_responses) ELSE x

\* C8: a parsed value with an array-valued responses, or that is an array, is
\* returned as that array: same length, same elements, same order.
C8_ArrayVerbatim ==
    ( /\ TextClassified
      /\ parsedBody.ok
      /\ (IsArray(Get(parsedBody.val, S_responses)) \/ IsArray(parsedBody.val)) )
    => /\ IsSuccess
       /\ Len(result.value.v) = Len(CarriedArray(parsedBody.val).v)
       /\ \A i \in 1..Len(result.value.v) :
             result.value.v[i] = CarriedArray(parsedBody.val).v[i]

C8_Witness ==
    /\ TextClassified /\ parsedBody.ok
    /\ IsArray(Get(parsedBody.val, S_responses))
    /\ IsSuccess /\ Len(result.value.v) = 2
    /\ Get(result.value.v[2], S_mimeType) = JStr(Mime_imagePng)

\* A parsed object that carries both a string text and an array responses.
HasBothShapes ==
    /\ TextClassified
    /\ parsedBody.ok
    /\ parsedBody.val.t = "object"
    /\ TypeofString(Get(parsedBody.val, S_text))
    /\ IsArray(Get(parsedBody.val, S_responses))

\* C9 as stated: the text shape is recognised first, so an object with both a
\* string text and an array responses is answered as the text shape.
C9_TextFirst ==
    HasBothShapes
    => result = Fulfilled(JArr(<<JObj(<<Prop(S_type, JStr(S_text)),
                                        Prop(S_content, Get(parsedBody.val, S_text))>>)>>))

\* C9 as amended: the responses shape is recognised first, so an object with both
\* a string text and an array responses is answered with its responses array.
C9_ResponsesFirst ==
    HasBothShapes
    => result = Fulfilled(Get(parsedBody.val, S_responses))

C9_Witness == HasBothShapes /\ IsSuccess /\ Len(result.value.v) = 1

IsBlank(s) == \A i \in 1..Len(s) : s[i] \in {" ", "\t", "\n", "\r"}

\* C11: a 2xx response without content is a success with the empty sequence. On
\* the binary branch a body of length zero gives [] and nothing is ever base64
\* encoded; on the JSON/text branch a blank body gives [], not the one text item
\* a failed JSON.parse would have produced.
C11_NoContentIsEmpty ==
    (Settled /\ response.some /\ response.status \in 200..299)
    => /\ (blob.some /\ Len(blob.bytes) = 0)
          => (result = Fulfilled(JArr(<<>>)) /\ base64Content = Undefined)
       /\ (responseText.some /\ IsBlank(responseText.v))
          => result = Fulfilled(JArr(<<>>))

C11_Witness ==
    /\ Settled /\ response.some /\ response.status = 200
    /\ responseText.some /\ responseText.v = B_blank
    /\ result = Fulfilled(JArr(<<>>))

C11_WitnessBinary ==
    /\ Settled /\ response.some /\ response.status = 200
    /\ blob.some /\ Len(blob.bytes) = 0 /\ response.contentType = Some(Mime_applicationPdf)
    /\ result = Fulfilled(JArr(<<>>))

\* A call that ended with the one item built from a non-empty binary body.
FileItemReturned ==
    /\ Settled /\ IsSuccess
    /\ blob.some /\ Len(blob.bytes) > 0

\* The MIME type the claims give the item: the blob's own type, else the header.
ItemMime == IF blob.type # <<>> THEN blob.type ELSE OrEmpty(response.contentType)

\* The kind the claims derive from a MIME type's prefix.
KindOf(m) ==
    IF HasPrefix(m, S_imageSlash) THEN S_image
    ELSE IF HasPrefix(m, S_videoSlash) THEN S_video
    ELSE IF HasPrefix(m, S_audioSlash) THEN S_audio
    ELSE S_file

\* C12: the item of a non-empty binary response has mimeType equal to the blob's
\* own type when that is non-empty and to the Content-Type header otherwise, and
\* its type is image, video or audio exactly when that MIME type starts with
\* image/, video/ or audio/, and file in every other case.
C12_KindFromMime ==
    FileItemReturned
    => /\ Len(result.value.v) = 1
       /\ Get(result.value.v[1], S_mimeType) = JStr(ItemMime)
       /\ Get(result.value.v[1], S_type) = JStr(KindOf(ItemMime))

C12_Witness ==
    /\ FileItemReturned
    /\ blob.type = <<>> /\ response.contentType = Some(Mime_audioMpeg)
    /\ Get(result.value.v[1], S_type) = JStr(S_audio)
    /\ Get(result.value.v[1], S_mimeType) = JStr(Mime_audioMpeg)

\* C13: every non-empty binary response whose body was read and encoded makes the
\* send succeed with one item carrying a non-empty fileName, whatever the
\* Content-Disposition header holds: absent, not an attachment, or a filename
\* whose percent-encoding is malformed.
C13_FileNameNeverFails ==
    (Settled /\ blob.some /\ Len(blob.bytes) > 0 /\ base64Content.t = "string")
    => /\ IsSuccess
       /\ Len(result.value.v) = 1
       /\ Get(result.value.v[1], S_fileName).t = "string"
       /\ Get(result.value.v[1], S_fileName).v # <<>>

\* The extension the rule of C14 gives a MIME type: the table's entry for the
\* type (lower-cased, parameters dropped), else the subtype up to a "+", else bin.
ExpectedExtension(m) ==
    LET n == Split(ToLowerCase(m), ";")[1]
        slash == {i \in 1..Len(n) : n[i] = "/"}
        first == CHOOSE i \in slash : \A j \in slash : i <= j
        rest == SubSeq(n, first + 1, Len(n))
        subType == Split(Split(rest, "/")[1], "+")[1]
    IN IF m = <<>> THEN S_bin
       ELSE IF \E i \in 1..Len(mimeMap) : mimeMap[i].key = n
       THEN mimeMap[CHOOSE i \in 1..Len(mimeMap) : mimeMap[i].key = n].ext
       ELSE IF slash # {} /\ Split(rest, "/")[1] # <<>> THEN subType
       ELSE S_bin

\* C14: for every MIME type the extension returned is the table's entry when the
\* type is in the table, otherwise the subtype token before any "+", and bin
\* when the type is empty or has no subtype to offer.
C14_ExtensionRule ==
    extension.some => extension.v = ExpectedExtension(mimeType)

\* An optional string that is present and not empty.
NonEmpty(o) == o.some /\ o.v # <<>>

\* C15: with header authentication the headers object given to fetch holds a
\* custom header if and only if headerName and headerValue are both non-empty,
\* and then exactly the one header headerName: headerValue; a configuration with
\* only one of the two gives no header.
C15_HeaderAuth ==
    (pc # "idle" /\ arguments.authConfig.type = "header")
    => headers = IF NonEmpty(arguments.authConfig.headerName)
                    /\ NonEmpty(arguments.authConfig.headerValue)
                 THEN <<[name |-> arguments.authConfig.headerName.v,
                         value |-> arguments.authConfig.headerValue.v]>>
                 ELSE <<>>

C15_Witness ==
    /\ pc = "fetch" /\ posts = 1
    /\ arguments.authConfig.type = "header"
    /\ headers = <<[name |-> Cred_headerName, value |-> Cred_headerValue]>>

C15_WitnessHalf ==
    /\ pc = "fetch" /\ posts = 1
    /\ arguments.authConfig.type = "header"
    /\ NonEmpty(arguments.authConfig.headerName) /\ ~NonEmpty(arguments.authConfig.headerValue)
    /\ headers = <<>>

\* The value of an optional string, the empty string when it is unset.
ValueOrEmpty(o) == IF o.some THEN o.v ELSE <<>>

\* username:password, an unset field counting as the empty string.
Credentials(a) == ValueOrEmpty(a.username) \o <<":">> \o ValueOrEmpty(a.password)

\* A text btoa has a base64 form for: every character is a byte.
IsByteString(s) == \A i \in 1..Len(s) : Ord(s[i]) <= 255

\* C16: with basic authentication the request carries Authorization: Basic
\* base64(username:password) if and only if username or password is non-empty
\* (an unset field counting as the empty string); with jwt it carries
\* Authorization: Bearer <token> iff the token is non-empty; with none it
\* carries no header.
C16_BasicJwtNone ==
    pc # "idle"
    => LET a == arguments.authConfig
       IN /\ a.type = "basic"
             => IF NonEmpty(a.username) \/ NonEmpty(a.password)
                THEN /\ Len(headers) = 1
                     /\ headers[1].name = S_Authorization
                     /\ HasPrefix(headers[1].value, S_Basic)
                     /\ IsByteString(Credentials(a))
                        => headers[1].value
                           = S_Basic \o Base64Encode(EncodeText(Credentials(a)))
                ELSE headers = <<>>
          /\ a.type = "jwt"
             => headers = IF NonEmpty(a.token)
                          THEN <<[name |-> S_Authorization, value |-> S_Bearer \o a.token.v]>>
                          ELSE <<>>
          /\ a.type = "none" => headers = <<>>

\* C17: no authentication configuration makes the send fail: whatever the
\* credentials, the header name or the missing fields, the call gets past its
\* header encoding and the request is issued.
C17_AuthNeverFails ==
    pc # "idle" => posts = 1

S_contentTypeLower == <<"c","o","n","t","e","n","t","-","t","y","p","e">>

\* The header is the one the authentication configuration asks for.
IsAuthHeader(h) ==
    \/ arguments.authConfig.type \in {"basic", "jwt"} /\ h.name = S_Authorization
    \/ /\ arguments.authConfig.type = "header"
       /\ arguments.authConfig.headerName.some
       /\ h.name = arguments.authConfig.headerName.v

C19_ExactlyOnePost ==
    /\ posts <= 1
    /\ Settled => posts = 1

\* How many messages a turn puts on the screen: one per attachment, and one for
\* the text unless it is blank.
TurnSize(call) == Len(call.files) + IF IsBlank(call.text) THEN 0 ELSE 1

\* No two requests of the application carry the same chatId.
DistinctChatIds ==
    /\ \A i, j \in 1..Len(sent) : i # j => sent[i].chatId # sent[j].chatId
    /\ \A i \in 1..Len(sent) : sent[i].chatId # <<>>
    /\ uuids = Len(sent)

\* A user turn: the step that echoes the user's input and starts loading. It
\* makes one request, with an identifier generated for it, and that request
\* carries the text and every attachment the turn put on the screen.
TurnIsOneRequest ==
    (~isLoading /\ isLoading')
    => /\ Len(sent') = Len(sent) + 1
       /\ uuids' = uuids + 1
       /\ SubSeq(sent', 1, Len(sent)) = sent
       /\ Len(messages') = Len(messages) + TurnSize(sent'[Len(sent')])
       /\ \A k \in 1..Len(sent'[Len(sent')].files) :
             Get(messages'[Len(messages') - Len(sent'[Len(sent')].files) + k], S_fileName)
             = JStr(sent'[Len(sent')].files[k].name)

InFlight == {i \in 1..Len(sent) : sent[i].state = "pending"}

\* C21: at most one webhook request is in flight in any state the application
\* reaches: while a send is pending the input is disabled, so nothing the user
\* does in the conversation starts a second one before the first has resolved
\* or rejected.
C21_OneInFlight ==
    /\ Cardinality(InFlight) <= 1
    /\ InFlight # {} => (isLoading \/ webhookUrl = <<>>)

C21_Witness ==
    /\ Len(sent) = 2
    /\ sent[1].state = "rejected" /\ sent[2].state = "pending"
    /\ isLoading /\ webhookUrl # <<>>

\* A string value that is not empty.
IsNonEmptyString(x) == x.t = "string" /\ x.v # <<>>

\* The content C22 gives the message of a response item: the data: URL of its
\* mimeType and content when the item is no text item, has a mimeType and has a
\* non-empty content without an http:, https:, blob: or data: scheme; the
\* content as it came in every other case.
WrappedContent(item) ==
    LET content == Get(item, S_content)
        mime == Get(item, S_mimeType)
        isText == Get(item, S_type).t = "string" /\ Get(item, S_type).v = S_text
        hasScheme == \E p \in {S_httpColon, S_httpsColon, S_blobColon, S_dataColon} :
                        HasPrefix(content.v, p)
    IN IF ~isText /\ IsNonEmptyString(mime) /\ IsNonEmptyString(content) /\ ~hasScheme
       THEN JStr(S_dataColon \o mime.v \o S_base64Comma \o content.v)
       ELSE content

\* The step in which the i-th request is fulfilled with items that are all objects.
FulfilledWithItems(i) ==
    /\ i \in 1..Len(sent) /\ sent[i].state = "pending"
    /\ sent'[i].state = "fulfilled"
    /\ \A k \in 1..Len(sent'[i].value.v) : sent'[i].value.v[k].t = "object"

\* Each item of the response became one message, in order, with the content
\* C22 gives it.
ItemsWrapped(i) ==
    LET items == sent'[i].value.v
    IN /\ Len(messages') = Len(messages) + Len(items)
       /\ \A k \in 1..Len(items) :
             Get(messages'[Len(messages) + k], S_content) = WrappedContent(items[k])

\* The item sendToWebhook returns for a binary body carries bare base64 text.
BinaryContentIsBare ==
    FileItemReturned
    => /\ Get(result.value.v[1], S_content).t = "string"
       /\ ~HasPrefix(Get(result.value.v[1], S_content).v, S_dataColon)

\* C22: when the App turns the items of a response into messages, the content
\* of an item is wrapped as data:<mimeType>;base64,<content> if and only if
\* the item is no text item, has a mimeType, and its non-empty content starts
\* with none of http:, https:, blob:, data:; every other content is passed
\* through unchanged. And the item sendToWebhook builds from a binary body
\* never has a content that starts with data:.
C22_DataUrlWrapping ==
    /\ [][\A i \in 1..MaxSends : FulfilledWithItems(i) => ItemsWrapped(i)]_vars
    /\ []BinaryContentIsBare

C22_Witness ==
    /\ Len(sent) = 1 /\ sent[1].state = "fulfilled"
    /\ Len(sent[1].value.v) = 2
    /\ Get(sent[1].value.v[1], S_content) = JStr(Url_cdn)
    /\ Len(messages) > 2
    /\ Get(messages[Len(messages) - 1], S_content) = JStr(Url_cdn)
    /\ Get(messages[Len(messages)], S_content) = JStr(Text_hi)

C22_WitnessWrapped ==
    /\ Len(sent) = 1 /\ sent[1].state = "fulfilled"
    /\ \E k \in 1..Len(messages) :
          Get(messages[k], S_content)
          = JStr(S_dataColon \o Mime_imagePng \o S_base64Comma \o B64_abc)

\* The step in which the i-th request fails.
Fails(i) ==
    /\ i \in 1..Len(sent) /\ sent[i].state = "pending"
    /\ sent'[i].state = "rejected"

\* The message shown for what a failed request was rejected with.
ShownMessage(err) == IF err.v.isError THEN err.v.message ELSE S_unknownError

\* The failure of the i-th request is surfaced once and the request is not
\* repeated.
FailureSurfaced(i) ==
    LET shown == ShownMessage(sent'[i].value)
        last == messages'[Len(messages')]
    IN /\ Len(messages') = Len(messages) + 1
       /\ SubSeq(messages', 1, Len(messages)) = messages
       /\ Get(last, S_sender) = JStr(S_bot)
       /\ Get(last, S_type) = JStr(S_text)
       /\ Get(last, S_content) = JStr(S_ErrorColon \o shown)
       /\ appError' = Some(shown)
       /\ Len(sent') = Len(sent)
       /\ \A j \in 1..Len(sent) : j # i => sent'[j] = sent[j]

\* C24: isLoading is true exactly while a webhook request is in flight: it is
\* true from the step that issues the request and false again once the request
\* has settled, whether with items, with no item or with a failure; so after a
\* settled send the input is enabled again.
C24_LoadingWhileInFlight ==
    /\ isLoading <=> InFlight # {}
    /\ (Len(sent) > 0 /\ InFlight = {}) => ~(isLoading \/ webhookUrl = <<>>)

C24_Witness ==
    /\ Len(sent) = 2
    /\ sent[1].state = "fulfilled" /\ sent[1].value = JArr(<<>>)
    /\ sent[2].state = "rejected"
    /\ ~isLoading

C24_WitnessInFlight ==
    /\ Len(sent) = 2
    /\ sent[1].state = "fulfilled" /\ Len(sent[1].value.v) = 2
    /\ sent[2].state = "pending"
    /\ isLoading

\* C25: a call of handleSendMessage while no webhook URL is configured only
\* sets the error banner: the message list is unchanged (no user message is
\* echoed), no request is issued and isLoading stays false.
C25_NoUrlOnlyBanner ==
    [][webhookUrl = <<>>
       => /\ appError' = Some(S_urlNotSet)
          /\ messages' = messages
          /\ sent' = sent /\ uuids' = uuids
          /\ ~isLoading /\ ~isLoading']_vars

C25_Witness ==
    /\ webhookUrl = <<>>
    /\ appError = Some(S_urlNotSet)
    /\ Len(messages) = 1 /\ Get(messages[1], S_content) = JStr(S_welcome)
    /\ sent = <<>>
    /\ ~isLoading

\* A message of the bot whose id the client generated.
IsClientStamped(m) ==
    /\ Get(m, S_sender) = JStr(S_bot)
    /\ Get(m, S_id).t = "string" /\ HasPrefix(Get(m, S_id).v, S_botDash)
    /\ Get(m, S_timestamp).t = "string" /\ Get(m, S_timestamp).v \in Clock

\* C26: every message appended to the conversation from a webhook response has
\* sender bot and an id and a timestamp generated by the client, whatever
\* fields the items of the response carry.
C26_BotStamped ==
    [][\A i \in 1..MaxSends :
          FulfilledWithItems(i)
          => \A k \in (Len(messages) + 1)..Len(messages') : IsClientStamped(messages'[k])]_vars

\* The step in which the i-th request settles.
Settles(i) ==
    /\ i \in 1..Len(sent) /\ sent[i].state = "pending"
    /\ sent'[i].state # "pending"

\* The conversation ends with the user messages of the i-th request.
HoldsTurnOf(i) ==
    \E now \in DateNow, iso \in Clock :
        LET turn == UserMessages([text |-> sent[i].text, files |-> sent[i].files], now, iso)
        IN /\ Len(messages) >= Len(turn)
           /\ SubSeq(messages, Len(messages) - Len(turn) + 1, Len(messages)) = turn

\* C27: the bot messages a request produces (its response items or its error)
\* are appended only to the conversation that holds the user messages of that
\* request, also when the settings were saved with another webhook URL while
\* the request was in flight.
C27_SameConversation ==
    [][\A i \in 1..MaxSends :
          (Settles(i) /\ messages' # messages) => HoldsTurnOf(i)]_vars

\* C23: when a send fails, the failure is surfaced and not retried: exactly one
\* bot text message "Error: <message>" is appended, directly after the user's
\* echoed messages of that request; the error banner shows the same message,
\* the messages already in the conversation are kept, no response item is
\* appended and no further request is issued.
C23_FailureSurfaced ==
    [][\A i \in 1..MaxSends : Fails(i) => (FailureSurfaced(i) /\ HoldsTurnOf(i))]_vars

\* The part of C23 that is about the failing step alone.
FailureSurfacedInPlace ==
    [][\A i \in 1..MaxSends : Fails(i) => FailureSurfaced(i)]_vars

\* C28: sendToWebhook reports the "Network error or CORS issue" failure only
\* when the call of fetch itself failed to obtain a response: the request was
\* issued and no response came back. A failure raised after a response was
\* obtained, or before the request was issued, is never reported so.
C28_NetworkErrorOnlyFromFetch ==
    IsNetworkError => (response = NoResponse /\ posts = 1)

\* The recordings whose recorder has run its onstop handler.
Ended == {r \in 1..Len(recordings) :
             recordings[r].recorder = "inactive" /\ ~recordings[r].stopEvent}

\* How many attachments the r-th recording added.
Attachments(r) == Cardinality({k \in 1..Len(inputFiles) : inputFiles[k] = r})

\* C29: at most one audio recording is active at any time: there is never a
\* second recorder recording, a second live stream or a second running
\* interval, also when startRecording was called again before getUserMedia
\* resolved; once a recording has been stopped or cancelled its stream and its
\* interval are stopped; a cancelled recording adds no attachment and a
\* stopped one exactly one.
C29_OneRecording ==
    /\ Cardinality({r \in 1..Len(recordings) : recordings[r].recorder = "recording"}) <= 1
    /\ Cardinality({r \in 1..Len(recordings) : recordings[r].stream = "live"}) <= 1
    /\ Cardinality({r \in 1..Len(recordings) : recordings[r].interval = "active"}) <= 1
    /\ \A r \in Ended : recordings[r].stream = "ended" /\ recordings[r].interval = "cleared"
    /\ \A r \in Ended : Attachments(r) = IF recordings[r].stoppedBy = "stopRecording" THEN 1 ELSE 0
    /\ \A r \in 1..Len(recordings) : r \notin Ended => Attachments(r) = 0

\* The service worker leaves every request that is no GET to the browser: it
\* neither answers it nor stores anything for it.
NonGetUntouched ==
    \A e \in 1..Len(events) :
        events[e].request.method # "GET"
        => events[e].phase = "done" /\ events[e].answer = "browser"

\* C30, as stated: the service worker never answers or stores a request that
\* is no GET, and the cache holds no response fetched from a URL that contains
\* /webhook/ and no fetched response whose status is not 200.
C30_CacheOnlyOk ==
    /\ NonGetUntouched
    /\ \A x \in cache : x.status = 200 /\ ~Includes(x.url, S_webhookSlash)

\* C30, amended: the same for what the fetch handler stores; the install
\* handler stores the opaque responses (status 0) of the CDN assets.
C30_FetchHandlerStoresOnlyOk ==
    /\ NonGetUntouched
    /\ \A x \in cache :
          x.storedBy = "fetch" => x.status = 200 /\ ~Includes(x.url, S_webhookSlash)
    /\ \A e \in 1..Len(events) :
          (events[e].phase = "put" \/ events[e].answer = "cache")
          => ~Includes(events[e].request.url, S_webhookSlash)

C30_Witness ==
    /\ Len(events) = 2
    /\ events[1].request = [method |-> "GET", url |-> Url_style]
    /\ events[1].phase = "done" /\ events[1].answer = "network"
    /\ Entry(Url_style, 200, "fetch") \in cache
    /\ events[2].request = [method |-> "POST", url |-> Url1]
    /\ events[2].answer = "browser"

C30_WitnessApiGet ==
    /\ Len(events) = 2
    /\ \A e \in 1..2 : /\ events[e].request = [method |-> "GET", url |-> Url1]
                       /\ events[e].phase = "done"
                       /\ events[e].answer = "network" /\ events[e].status = 200
====
